---- MODULE Spec2Model ----
(***************************************************************************)
(* The coaching-advice verification layer (class CoachingVerifier and the  *)
(* COACHING_SYLLABUS table of client/src/components/SignupPage.tsx) as a   *)
(* state machine.  JavaScript strings are TLA+ strings; includes() and     *)
(* toLowerCase() are computed character by character.  An optional value   *)
(* (a field that may be undefined) is a sequence of length 0 or 1.  Arrays *)
(* are objects on a heap, so that a copy and an alias differ.              *)
(***************************************************************************)
EXTENDS Integers, Sequences, FiniteSets, TLC

\* Longest session error log the model explores.
MaxLog == 2

Undefined == <<>>
Some(v) == <<v>>

-----------------------------------------------------------------------------
(* The syllabus data.  corrections is an object literal: Object.entries    *)
(* yields its entries in insertion order, so it is a sequence of           *)
(* <<key, value>> pairs.                                                   *)

COACHING_SYLLABUS ==
  [ moba |-> <<
      [ category |-> "positioning",
        keywords |-> <<"position", "map", "ward", "vision", "safe", "engage">>,
        validAdvice |-> <<"Stay behind minions", "Ward river bushes",
                          "Position for objectives", "Maintain safe distance",
                          "Group with team">>,
        invalidPatterns |-> <<"always engage", "never retreat", "ignore map">>,
        corrections |-> << <<"engage without vision", "Ward before engaging">>,
                           <<"chase kills", "Focus on objectives">> >> ],
      [ category |-> "itemization",
        keywords |-> <<"item", "build", "buy", "gold", "shop", "upgrade">>,
        validAdvice |-> <<"Build armor against AD", "Buy magic resist",
                          "Prioritize core items", "Ward instead of damage">>,
        invalidPatterns |-> <<"always same build", "ignore enemy comp">>,
        corrections |-> << <<"build same every game", "Adapt to enemy composition">> >> ],
      [ category |-> "teamfight",
        keywords |-> <<"fight", "team", "engage", "disengage", "focus", "target">>,
        validAdvice |-> <<"Focus carry targets", "Protect your ADC",
                          "Wait for initiation", "Disengage when low">>,
        invalidPatterns |-> <<"fight without team", "chase into jungle">>,
        corrections |-> << <<"1v5 engage", "Wait for team coordination">> >> ] >>,
    fighting |-> <<
      [ category |-> "fundamentals",
        keywords |-> <<"block", "punish", "frame", "spacing", "neutral", "combo">>,
        validAdvice |-> <<"Block low attacks", "Punish unsafe moves",
                          "Maintain proper spacing", "Practice anti-airs",
                          "Learn frame data">>,
        invalidPatterns |-> <<"mash buttons", "always attack", "ignore defense">>,
        corrections |-> << <<"button mashing", "Focus on precise inputs">>,
                           <<"always aggressive", "Mix offense with defense">> >> ],
      [ category |-> "mixups",
        keywords |-> <<"mix", "overhead", "throw", "pressure", "reset", "setup">>,
        validAdvice |-> <<"Mix highs and lows", "Use throw techs",
                          "Create frame traps", "Reset to neutral">>,
        invalidPatterns |-> <<"same combo always", "predictable patterns">>,
        corrections |-> << <<"repetitive offense", "Vary your attack patterns">> >> ] >>,
    sport |-> <<
      [ category |-> "possession",
        keywords |-> <<"pass", "possession", "ball", "control", "tempo", "build">>,
        validAdvice |-> <<"Maintain possession", "Pass to open players",
                          "Control game tempo", "Build from defense",
                          "Switch play wide">>,
        invalidPatterns |-> <<"always sprint", "long ball only", "ignore midfield">>,
        corrections |-> << <<"rush forward", "Build play patiently">>,
                           <<"ignore passing", "Use short passes to maintain control">> >> ],
      [ category |-> "defense",
        keywords |-> <<"defend", "pressure", "tackle", "cover", "shape", "compact">>,
        validAdvice |-> <<"Press high", "Maintain defensive shape",
                          "Cover passing lanes", "Track runner">>,
        invalidPatterns |-> <<"always tackle", "break formation", "ball watching">>,
        corrections |-> << <<"dive in", "Stay disciplined in defense">>,
                           <<"chase ball", "Maintain positional discipline">> >> ],
      [ category |-> "attacking",
        keywords |-> <<"attack", "cross", "shoot", "run", "overlap", "finish">>,
        validAdvice |-> <<"Make overlapping runs", "Cross early",
                          "Shoot when in box", "Create width">>,
        invalidPatterns |-> <<"shoot from anywhere", "never pass", "static attack">>,
        corrections |-> << <<"selfish play", "Look for better positioned teammates">> >> ] >> ]

\* The own keys of the COACHING_SYLLABUS object literal.
SyllabusKeys == DOMAIN COACHING_SYLLABUS

\* Property names every object literal inherits from Object.prototype; a
\* lookup COACHING_SYLLABUS[k] with one of them yields a function or an
\* object, which is truthy and is not iterable.
ObjectPrototypeKeys ==
  { "constructor", "toString", "__proto__", "hasOwnProperty", "valueOf",
    "isPrototypeOf", "propertyIsEnumerable", "toLocaleString",
    "__defineGetter__", "__defineSetter__", "__lookupGetter__", "__lookupSetter__" }

Range(s) == { s[i] : i \in DOMAIN s }

-----------------------------------------------------------------------------
(* Inputs.  Advice texts are free-form strings; the model draws them from  *)
(* the syllabus' own invalid patterns and valid phrases and from sentences *)
(* that combine them.                                                      *)

AllPrinciples == UNION { Range(COACHING_SYLLABUS[k]) : k \in SyllabusKeys }

PatternTexts == UNION { Range(p.invalidPatterns) : p \in AllPrinciples }

PhraseTexts == UNION { Range(p.validAdvice) : p \in AllPrinciples }

SentenceTexts ==
  { "I should always engage without vision",
    "Stay behind minions, ward and engage but ignore enemy comp",
    "Stay behind minions, ward, then always engage and ignore enemy comp",
    "Stay behind minions, ward and engage, ignore enemy comp, chase into jungle",
    "NEVER RETREAT from a fight",
    "Block low attacks, punish with a combo, use predictable patterns",
    "Maintain possession, pass the ball and never pass back",
    "Position near the ward for vision on the map",
    "Buy items and upgrade your build",
    "Try to focus on your goals",
    "You should never give up, practice more",
    "Great rotation",
    "buy gold item",
    "Mix highs and lows, use throw techs, create frame traps, reset to neutral, overhead pressure setup",
    "never retreat and always engage",
    "ignore enemy comp and always engage",
    "Work on your last hitting",
    "Try this guaranteed trick",
    "Stay behind minions, ward and engage",
    "Upgrade your build with gold from the shop",
    "Focus carry targets to buy time",
    "Keep focusing on your fundamentals",
    "Let me help you with that.",
    "" }

TimeTexts ==
  { "Engage now", "Great rotation", "Engage then ward", "Step backward",
    "Defend the tower", "Farm safely", "PUSH mid", "Try to focus on your goals" }

\* Texts in two spellings that differ in letter case only, and one more.
CaseTexts ==
  { "always engage", "ALWAYS ENGAGE",
    "Stay behind minions, ward and engage", "STAY BEHIND MINIONS, WARD AND ENGAGE",
    "Try to focus on your goals", "TRY TO FOCUS ON YOUR GOALS",
    "mash buttons", "Mash Buttons",
    "Great rotation" }

Texts == PatternTexts \cup PhraseTexts \cup SentenceTexts \cup TimeTexts \cup CaseTexts

\* The texts of the session specifications: for every game, texts with an
\* invalid pattern, texts a principle accepts and texts no principle matches.
SessionTexts ==
  { "always engage", "NEVER RETREAT from a fight",
    "Stay behind minions, ward and engage but ignore enemy comp",
    "mash buttons", "Block low attacks, punish with a combo, use predictable patterns",
    "ball watching", "Maintain possession, pass the ball and never pass back",
    "chase into jungle", "always sprint",
    "Focus carry targets", "Try to focus on your goals", "Great rotation" }

\* The texts of the session whose caller keeps snapshots.
SnapshotTexts == { "always engage", "mash buttons", "ball watching", "Try to focus on your goals" }

\* The texts of the session with an observer.
RepeatTexts ==
  { "always engage", "mash buttons", "ball watching",
    "Focus carry targets", "Try to focus on your goals", "Great rotation" }

\* Elapsed times between issuing an advice and validating it, in ms.
Elapsed == { 0, 2999, 3000, 3001, 4999, 5000, 5001, 9999, 10000, 10001, 60000 }

\* Texts, in two letter cases, and elapsed times for validateTimeSensitivity
\* in the session with calls of every method.
LogTimeTexts == { "always engage", "ALWAYS ENGAGE", "Great rotation" }

LogElapsed == { 0, 3001 }

\* The optional currentGameTime argument.
GameTimes == { Undefined, Some(30) }

\* The optional, loosely typed gameContext argument.
Contexts == { Undefined, Some([gamePhase |-> "early", gameTime |-> 30]) }

\* Construction inputs: the three syllabus keys, an unknown name, and a name
\* every object inherits.
GameCategories == SyllabusKeys \cup { "fps", "constructor" }

-----------------------------------------------------------------------------
(* String.prototype.toLowerCase and String.prototype.includes, on strings   *)
(* of the characters up to U+00FF (ASCII and Latin-1), which are all a      *)
(* string of this module can hold.  Among them toLowerCase maps A-Z and the *)
(* accented capitals U+00C0-U+00DE except the multiplication sign U+00D7,   *)
(* each to the letter 32 code points further, and nothing else.             *)

UpperCase == "ABCDEFGHIJKLMNOPQRSTUVWXYZÀÁÂÃÄÅÆÇÈÉÊËÌÍÎÏÐÑÒÓÔÕÖØÙÚÛÜÝÞ"
LowerCase == "abcdefghijklmnopqrstuvwxyzàáâãäåæçèéêëìíîïðñòóôõöøùúûüýþ"

lowerChar(c) ==
  IF \E i \in 1..Len(UpperCase) : SubSeq(UpperCase, i, i) = c
    THEN LET k == CHOOSE j \in 1..Len(UpperCase) : SubSeq(UpperCase, j, j) = c
         IN  SubSeq(LowerCase, k, k)
    ELSE c

RECURSIVE lowerString(_)
lowerString(s) ==
  IF Len(s) = 0 THEN ""
  ELSE lowerChar(SubSeq(s, 1, 1)) \o lowerString(SubSeq(s, 2, Len(s)))

searchString(s, p) ==
  \E i \in 1..(Len(s) - Len(p) + 1) : SubSeq(s, i, i + Len(p) - 1) = p

\* toLowerCase that leaves the string as it is.
keepCase(s) == s

toLowerCase(s) == lowerString(s)

includes(s, p) == searchString(s, p)

-----------------------------------------------------------------------------
(* Numbers.  A confidence is the exact quotient num/den in lowest terms;    *)
(* 0/0 is NaN and 1/0 is Infinity.                                          *)

RECURSIVE GCD(_, _)
GCD(a, b) == IF b = 0 THEN a ELSE GCD(b, a % b)

Quotient(n, d) ==
  IF d = 0
    THEN [ num |-> IF n = 0 THEN 0 ELSE 1, den |-> 0 ]
    ELSE [ num |-> n \div GCD(n, d), den |-> d \div GCD(n, d) ]

\* a >= b in place of a > b.
AtLeast(a, b) == a.num * b.den >= b.num * a.den

\* a > b, which is false when one of them is NaN.
Greater(a, b) ==
  /\ a # Quotient(0, 0)
  /\ b # Quotient(0, 0)
  /\ a.num * b.den > b.num * a.den

\* The quotient without the cap: score / maxScore.
Uncapped(score, maxScore) == Quotient(score, maxScore)

\* Math.min(score / maxScore, 1.0)
MinWithOne(score, maxScore) ==
  IF score = 0 /\ maxScore = 0 THEN Quotient(0, 0)
  ELSE IF score >= maxScore THEN Quotient(1, 1)
  ELSE Quotient(score, maxScore)

\* new Date(now).toISOString(), for instants within the first minute of the
\* epoch.
Pad(n, width) ==
  LET d == ToString(n)
  IN  SubSeq("000", 1, width - Len(d)) \o d

toISOString(t) ==
  "1970-01-01T00:00:" \o Pad(t \div 1000, 2) \o "." \o Pad(t % 1000, 3) \o "Z"

-----------------------------------------------------------------------------
(* The private methods of CoachingVerifier.                                *)

\* A string | undefined that `||` does not replace.
Truthy(x) == x # Undefined /\ x[1] # ""

\* findCorrection that falls back to the last entry when no key matches.
findCorrectionOrLast(invalidPattern, corrections) ==
  LET hits == { i \in DOMAIN corrections :
                  \/ includes(corrections[i][1], invalidPattern)
                  \/ includes(invalidPattern, corrections[i][1]) }
  IN  IF corrections = <<>> THEN Undefined
      ELSE IF hits = {} THEN Some(corrections[Len(corrections)][2])
      ELSE Some(corrections[CHOOSE i \in hits : \A j \in hits : i <= j][2])

\* findCorrection that returns the first entry without comparing its key.
findCorrectionFirstEntry(invalidPattern, corrections) ==
  IF corrections = <<>> THEN Undefined ELSE Some(corrections[1][2])

\* The first correction whose key contains the pattern or is contained in it.
findCorrection(invalidPattern, corrections) ==
  LET hits == { i \in DOMAIN corrections :
                  \/ includes(corrections[i][1], invalidPattern)
                  \/ includes(invalidPattern, corrections[i][1]) }
  IN  IF hits = {} THEN Undefined
      ELSE Some(corrections[CHOOSE i \in hits : \A j \in hits : i <= j][2])

\* genericAdvice[category] || "Focus on fundamentals": the sentence of an own
\* key, the inherited value of an inherited key (truthy, not a string), or
\* the default.
getGenericAdvice(category) ==
  CASE category \in ObjectPrototypeKeys -> [ kind |-> "inherited", key |-> category ]
    [] category = "positioning"  -> "Focus on safe positioning"
    [] category = "itemization"  -> "Build according to game state"
    [] category = "teamfight"    -> "Coordinate with your team"
    [] category = "fundamentals" -> "Practice your basics"
    [] category = "mixups"       -> "Vary your approach"
    [] category = "possession"   -> "Maintain ball control"
    [] category = "defense"      -> "Stay organized defensively"
    [] category = "attacking"    -> "Look for scoring opportunities"
    [] OTHER                     -> "Focus on fundamentals"

\* advice is the lowercased text.
matchesCategory(advice, principle) ==
  LET maxScore == Len(principle.keywords) + Len(principle.validAdvice)
      score == Cardinality({ i \in DOMAIN principle.keywords :
                               includes(advice, principle.keywords[i]) })
             + 2 * Cardinality({ i \in DOMAIN principle.validAdvice :
                               includes(advice, toLowerCase(principle.validAdvice[i])) })
      confidence == MinWithOne(score, maxScore)
  IN  [ matches |-> Greater(confidence, Quotient(3, 10)), confidence |-> confidence ]

\* enhanceAdvice that searches the text as given, without lowercasing it.
enhanceAdviceCaseSensitive(advice, principle) ==
  IF principle.category = "positioning" /\ includes(advice, "position")
    THEN advice \o " - Consider enemy threat ranges"
  ELSE IF principle.category = "itemization" /\ includes(advice, "buy")
    THEN advice \o " - Check enemy builds first"
  ELSE advice

enhanceAdvice(advice, principle) ==
  LET lowerAdvice == toLowerCase(advice)
  IN  IF principle.category = "positioning" /\ includes(lowerAdvice, "position")
        THEN advice \o " - Consider enemy threat ranges"
      ELSE IF principle.category = "itemization" /\ includes(lowerAdvice, "buy")
        THEN advice \o " - Check enemy builds first"
      ELSE advice

\* isGenerallyValid that only asks for an actionable term.
isGenerallyValidActionableOnly(advice) ==
  \E term \in { "try", "focus", "consider", "practice", "improve", "work on" } :
    includes(toLowerCase(advice), term)

isGenerallyValid(advice) ==
  LET lowerAdvice == toLowerCase(advice)
      invalidTerms == { "always", "never", "impossible", "guaranteed" }
      hasInvalidTerms == \E term \in invalidTerms : includes(lowerAdvice, term)
      actionableTerms == { "try", "focus", "consider", "practice", "improve", "work on" }
      hasActionableTerms == \E term \in actionableTerms : includes(lowerAdvice, term)
  IN  ~hasInvalidTerms /\ hasActionableTerms

\* logError without the push: the entry only reaches the console.
logErrorConsoleOnly(sessionErrorsArray, error, clock) == sessionErrorsArray

\* logError with unshift in place of push: the entry goes to the front.
logErrorFirst(sessionErrorsArray, error, clock) ==
  << toISOString(clock) \o ": " \o error >> \o sessionErrorsArray

\* The array after sessionErrors.push(...).
logError(sessionErrorsArray, error, clock) ==
  Append(sessionErrorsArray, toISOString(clock) \o ": " \o error)

-----------------------------------------------------------------------------
(* The public methods of CoachingVerifier, as functions of the fields they *)
(* read and the clock (Date.now(), new Date()).                            *)

\* COACHING_SYLLABUS[gameCategory] || []: a reference to the array of an
\* own key, the inherited value of an inherited key (truthy), or a new
\* empty array.
newCoachingVerifier(category) ==
  IF category \in SyllabusKeys
    THEN [ kind |-> "syllabus", key |-> category ]
  ELSE IF category \in ObjectPrototypeKeys
    THEN [ kind |-> "inherited", key |-> category ]
  ELSE [ kind |-> "empty", key |-> "" ]

\* Whether for...of can iterate the value, and the principles it yields.
Iterable(syllabus) == syllabus.kind # "inherited"

Principles(syllabus) ==
  IF syllabus.kind = "syllabus" THEN COACHING_SYLLABUS[syllabus.key] ELSE <<>>

\* The loops taken from the last principle and pattern to the first.
LoopAfter(a, b) == a[1] > b[1] \/ (a[1] = b[1] /\ a[2] >= b[2])

\* The order in which the nested loops visit <<principle, pattern>> pairs.
LoopBefore(a, b) == a[1] < b[1] \/ (a[1] = b[1] /\ a[2] <= b[2])

\* The first loop of verifyAdvice: the outcome of the first invalid pattern
\* found in the text, if any.  An outcome is whether the call throws, the
\* verdict it returns and the message it hands to logError, if any.
invalidPass(ps, advice, lowerAdvice) ==
  LET invalidHits ==
        { h \in UNION { { <<i, j>> : j \in DOMAIN ps[i].invalidPatterns } : i \in DOMAIN ps } :
            includes(lowerAdvice, ps[h[1]].invalidPatterns[h[2]]) }
  IN  IF invalidHits = {} THEN Undefined
      ELSE LET h == CHOOSE x \in invalidHits : \A y \in invalidHits : LoopBefore(x, y)
               principle == ps[h[1]]
               invalidPattern == principle.invalidPatterns[h[2]]
               correction == findCorrection(invalidPattern, principle.corrections)
           IN  Some([ threw |-> FALSE,
                      value |-> Some(
                        [ isValid |-> FALSE,
                          modifiedAdvice |-> IF Truthy(correction) THEN correction
                                             ELSE Some(getGenericAdvice(principle.category)),
                          category |-> Some(principle.category),
                          confidence |-> Quotient(3, 10),
                          warning |-> Some("Advice contradicts expert principles for "
                                             \o principle.category) ]),
                      error |-> Some("Invalid advice detected: " \o advice) ])

\* The second loop: the acceptance by the first principle that matches.
positivePass(ps, advice, lowerAdvice) ==
  LET positiveHits == { i \in DOMAIN ps : matchesCategory(lowerAdvice, ps[i]).matches }
  IN  IF positiveHits = {} THEN Undefined
      ELSE LET principle == ps[CHOOSE x \in positiveHits : \A y \in positiveHits : x <= y]
           IN  Some([ threw |-> FALSE,
                      value |-> Some(
                        [ isValid |-> TRUE,
                          modifiedAdvice |-> Some(enhanceAdvice(advice, principle)),
                          category |-> Some(principle.category),
                          confidence |-> matchesCategory(lowerAdvice, principle).confidence,
                          warning |-> Undefined ]),
                      error |-> Undefined ])

\* General validation that also hands a rejected text to logError.
generalValidationLogged(advice) ==
  [ threw |-> FALSE,
    value |-> Some(
      [ isValid |-> isGenerallyValid(advice),
        modifiedAdvice |-> Undefined,
        category |-> Undefined,
        confidence |-> Quotient(6, 10),
        warning |-> IF isGenerallyValid(advice) THEN Undefined
                    ELSE Some("Advice not aligned with coaching principles") ]),
    error |-> IF isGenerallyValid(advice) THEN Undefined
              ELSE Some("Invalid advice detected: " \o advice) ]

\* The final return: general validation.
generalValidation(advice) ==
  [ threw |-> FALSE,
    value |-> Some(
      [ isValid |-> isGenerallyValid(advice),
        modifiedAdvice |-> Undefined,
        category |-> Undefined,
        confidence |-> Quotient(6, 10),
        warning |-> IF isGenerallyValid(advice) THEN Undefined
                    ELSE Some("Advice not aligned with coaching principles") ]),
    error |-> Undefined ]

\* verifyAdvice with the two loops in the other order: positive matching
\* before the invalid patterns.
verifyOutcomePositiveFirst(syllabus, advice) ==
  LET lowerAdvice == toLowerCase(advice)
      ps == Principles(syllabus)
      rejected == invalidPass(ps, advice, lowerAdvice)
      accepted == positivePass(ps, advice, lowerAdvice)
  IN  IF ~Iterable(syllabus)
        THEN [ threw |-> TRUE, value |-> Undefined, error |-> Undefined ]
      ELSE IF accepted # Undefined THEN accepted[1]
      ELSE IF rejected # Undefined THEN rejected[1]
      ELSE generalValidation(advice)

\* The control flow of verifyAdvice.
verifyOutcome(syllabus, advice) ==
  LET lowerAdvice == toLowerCase(advice)
      ps == Principles(syllabus)
      rejected == invalidPass(ps, advice, lowerAdvice)
      accepted == positivePass(ps, advice, lowerAdvice)
  IN  IF ~Iterable(syllabus)
        THEN \* for...of over a value that is not iterable: TypeError
             [ threw |-> TRUE, value |-> Undefined, error |-> Undefined ]
      ELSE IF rejected # Undefined THEN rejected[1]
      ELSE IF accepted # Undefined THEN accepted[1]
      ELSE generalValidation(advice)

\* verifyOutcome over the model's inputs, computed once.
OutcomeTable ==
  [ syllabus \in { newCoachingVerifier(c) : c \in GameCategories } |->
      [ advice \in Texts |-> verifyOutcome(syllabus, advice) ] ]

\* verifyAdvice that trusts advice given with a game context: it skips the
\* syllabus and applies the general validation alone.
verifyAdviceByContext(syllabus, sessionErrorsArray, advice, gameContext, clock) ==
  LET o == IF gameContext # Undefined /\ Iterable(syllabus)
             THEN generalValidation(advice)
             ELSE verifyOutcome(syllabus, advice)
  IN  [ threw |-> o.threw,
        value |-> o.value,
        sessionErrors |-> IF o.error # Undefined
                            THEN logError(sessionErrorsArray, o.error[1], clock)
                            ELSE sessionErrorsArray ]

\* The result of verifyAdvice: whether it threw, the verdict it returned
\* and the contents of the sessionErrors array afterwards.  gameContext is
\* not read.
verifyAdvice(syllabus, sessionErrorsArray, advice, gameContext, clock) ==
  LET o == IF syllabus \in DOMAIN OutcomeTable /\ advice \in Texts
             THEN OutcomeTable[syllabus][advice]
             ELSE verifyOutcome(syllabus, advice)
  IN  [ threw |-> o.threw,
        value |-> o.value,
        sessionErrors |-> IF o.error # Undefined
                            THEN logError(sessionErrorsArray, o.error[1], clock)
                            ELSE sessionErrorsArray ]

timeSensitiveTerms ==
  << [ terms |-> <<"engage", "attack", "push">>, maxDelay |-> 3000 ],
     [ terms |-> <<"defend", "retreat", "back">>, maxDelay |-> 5000 ],
     [ terms |-> <<"ward", "position", "farm">>, maxDelay |-> 10000 ] >>

\* withinDelay with a strict comparison.
withinDelayStrict(timeDiff, maxDelay) == timeDiff < maxDelay

\* timeDiff <= maxDelay
withinDelay(timeDiff, maxDelay) == timeDiff <= maxDelay

\* matchingTier that keeps the last matching entry instead of the first.
matchingTierLast(advice) ==
  LET lowerAdvice == toLowerCase(advice)
      tiers == { i \in DOMAIN timeSensitiveTerms :
                   \E term \in Range(timeSensitiveTerms[i].terms) : includes(lowerAdvice, term) }
  IN  IF tiers # {} THEN Some(CHOOSE i \in tiers : \A j \in tiers : i >= j) ELSE Undefined

\* The first entry of timeSensitiveTerms with a term in the text, if any.
matchingTier(advice) ==
  LET lowerAdvice == toLowerCase(advice)
      tiers == { i \in DOMAIN timeSensitiveTerms :
                   \E term \in Range(timeSensitiveTerms[i].terms) : includes(lowerAdvice, term) }
  IN  IF tiers # {} THEN Some(CHOOSE i \in tiers : \A j \in tiers : i <= j) ELSE Undefined

\* matchingTier over the model's inputs, computed once.
TierTable == [ advice \in Texts |-> matchingTier(advice) ]

\* currentGameTime is not read.
validateTimeSensitivity(advice, timestamp, currentGameTime, clock) ==
  LET timeDiff == clock - timestamp
      tier == IF advice \in Texts THEN TierTable[advice] ELSE matchingTier(advice)
  IN  IF tier # Undefined
        THEN withinDelay(timeDiff, timeSensitiveTerms[tier[1]].maxDelay)
        ELSE TRUE

-----------------------------------------------------------------------------
(* State.                                                                  *)

VARIABLES
  gameCategory,         \* the constructor's argument
  currentGameSyllabus,  \* field: what COACHING_SYLLABUS[gameCategory] || [] gave
  sessionErrors,        \* field: a reference to the array of log entries
  heap,                 \* the arrays: reference -> contents
  snapshot,             \* the array a caller kept from getSessionErrors, if any
  now,                  \* the wall clock, in ms
  ret,                  \* the last call of a public method and what it returned
  earlier,              \* a verifyAdvice call the observer remembers, if any
  service,              \* the fields of the GeminiService that owns the verifier, if any
  app                   \* the booth application around the service, if any

vars == << gameCategory, currentGameSyllabus, sessionErrors, heap, snapshot, now, ret, earlier,
           service, app >>

\* Latest instant of the wall clock the model explores.
MaxClock == 1

Refs == 1..3

\* The arrays something still refers to.
Live == { sessionErrors } \cup Range(snapshot)

\* A fresh array: the least reference nothing refers to.
NewRef(live) == CHOOSE r \in Refs \ live : \A q \in Refs \ live : r <= q

\* Arrays nothing refers to are garbage.
Collect(h, live) == [ r \in Refs |-> IF r \in live THEN h[r] ELSE <<>> ]

\* The session error log: the contents of this.sessionErrors.
Log == heap[sessionErrors]

\* getSessionErrors that returns the array itself: return this.sessionErrors
getSessionErrorsLive(h, self, live) == [ ref |-> self, heap |-> h ]

\* return [...this.sessionErrors]
getSessionErrors(h, self, live) ==
  LET r == NewRef(live)
  IN  [ ref |-> r, heap |-> [ h EXCEPT ![r] = h[self] ] ]

\* resetSession that leaves the array as it is.
resetSessionKeepsLog(h, self, live) == [ sessionErrors |-> self, heap |-> h ]

\* this.sessionErrors = []
resetSession(h, self, live) ==
  LET r == NewRef(live)
  IN  [ sessionErrors |-> r, heap |-> [ h EXCEPT ![r] = <<>> ] ]

-----------------------------------------------------------------------------
(* Actions.                                                                *)

Init ==
  /\ gameCategory \in GameCategories
  /\ currentGameSyllabus = newCoachingVerifier(gameCategory)
  /\ sessionErrors = 1
  /\ heap = [ r \in Refs |-> <<>> ]
  /\ snapshot = Undefined
  /\ now = 0
  /\ ret = [ op |-> "new" ]
  /\ earlier = Undefined
  /\ service = Undefined
  /\ app = Undefined

VerifyAdvice(advice, gameContext) ==
  LET r == verifyAdvice(currentGameSyllabus, Log, advice, gameContext, now)
  IN  /\ Len(r.sessionErrors) <= MaxLog
      /\ heap' = [ heap EXCEPT ![sessionErrors] = r.sessionErrors ]
      /\ ret' = [ op |-> "verifyAdvice", advice |-> advice, gameContext |-> gameContext,
                  threw |-> r.threw, value |-> r.value ]
      /\ UNCHANGED << app, gameCategory, currentGameSyllabus, sessionErrors, snapshot, now, earlier, service >>

ValidateTimeSensitivity(advice, timestamp, currentGameTime) ==
  /\ ret' = [ op |-> "validateTimeSensitivity", advice |-> advice, timestamp |-> timestamp,
              at |-> now,
              value |-> validateTimeSensitivity(advice, timestamp, currentGameTime, now) ]
  /\ UNCHANGED << app, gameCategory, currentGameSyllabus, sessionErrors, heap, snapshot, now, earlier, service >>

\* The caller reads the returned array and either keeps it (replacing the
\* one it kept before) or lets go of it.
GetSessionErrors(keep) ==
  LET r == getSessionErrors(heap, sessionErrors, Live)
      kept == IF keep THEN Some(r.ref) ELSE snapshot
  IN  /\ ret' = [ op |-> "getSessionErrors", value |-> r.heap[r.ref] ]
      /\ snapshot' = kept
      /\ heap' = Collect(r.heap, { sessionErrors } \cup Range(kept))
      /\ UNCHANGED << app, gameCategory, currentGameSyllabus, sessionErrors, now, earlier, service >>

\* resetSession that also rebinds the syllabus, as a new verifier for no
\* game would.
ResetSessionRebinds ==
  LET r == resetSession(heap, sessionErrors, Live)
  IN  /\ sessionErrors' = r.sessionErrors
      /\ heap' = Collect(r.heap, { r.sessionErrors } \cup Range(snapshot))
      /\ currentGameSyllabus' = newCoachingVerifier("")
      /\ ret' = [ op |-> "resetSession" ]
      /\ UNCHANGED << app, gameCategory, snapshot, now, earlier, service >>

ResetSession ==
  LET r == resetSession(heap, sessionErrors, Live)
  IN  /\ sessionErrors' = r.sessionErrors
      /\ heap' = Collect(r.heap, { r.sessionErrors } \cup Range(snapshot))
      /\ ret' = [ op |-> "resetSession" ]
      /\ UNCHANGED << app, gameCategory, currentGameSyllabus, snapshot, now, earlier, service >>

Tick ==
  /\ now < MaxClock
  /\ now' = now + 1
  /\ UNCHANGED << app, gameCategory, currentGameSyllabus, sessionErrors, heap, snapshot, ret, earlier, service >>

\* What a caller can do to an array it was given: push, pop, overwrite.
CallerPush ==
  /\ snapshot # Undefined
  /\ Len(heap[snapshot[1]]) <= MaxLog
  /\ heap' = [ heap EXCEPT ![snapshot[1]] = Append(@, "tampered") ]
  /\ UNCHANGED << app, gameCategory, currentGameSyllabus, sessionErrors, snapshot, now, ret, earlier, service >>

CallerPop ==
  /\ snapshot # Undefined
  /\ Len(heap[snapshot[1]]) > 0
  /\ heap' = [ heap EXCEPT ![snapshot[1]] = SubSeq(@, 1, Len(@) - 1) ]
  /\ UNCHANGED << app, gameCategory, currentGameSyllabus, sessionErrors, snapshot, now, ret, earlier, service >>

CallerOverwrite ==
  /\ snapshot # Undefined
  /\ Len(heap[snapshot[1]]) > 0
  /\ heap' = [ heap EXCEPT ![snapshot[1]] = [ @ EXCEPT ![1] = "tampered" ] ]
  /\ UNCHANGED << app, gameCategory, currentGameSyllabus, sessionErrors, snapshot, now, ret, earlier, service >>

\* The observer remembers the verifyAdvice call that has just returned.
Remember ==
  /\ ret.op = "verifyAdvice"
  /\ earlier' = Some([ advice |-> ret.advice, gameContext |-> ret.gameContext,
                       threw |-> ret.threw, value |-> ret.value, logLength |-> Len(Log) ])
  /\ UNCHANGED << app, gameCategory, currentGameSyllabus, sessionErrors, heap, snapshot, now, ret, service >>

\* The first call on a verifier.
FirstVerifyAdvice(advice, gameContext) ==
  /\ ret.op = "new"
  /\ VerifyAdvice(advice, gameContext)

-----------------------------------------------------------------------------
(* GeminiService, the singleton that owns the verifier of a booth session. *)
(* The model does not measure the delays of its timers (reconnection retry *)
(* after 5 s, session monitor every 30 s): a pending callback runs at any  *)
(* later step.  The frame-analysis interval (3 s) changes no field.        *)

\* Most requests for advice the model lets one visitor's metrics count.
MaxRequests == 2

\* Most calls awaiting createLiveSession (initializations and
\* reconnections), most calls awaiting generateContent (requests for advice
\* and chats), most pending retry timers and most running monitor intervals
\* the model follows at a time.
MaxPending == 2

MODEL_CONFIGS ==
  << "gemini-2.5-pro-preview", "gemini-2.5-flash-preview", "gemini-2.5-flash-lite-preview" >>

maxReconnectAttempts == 3

initializeMetrics(clock) ==
  [ tokenCount |-> 0, sessionCost |-> 0, startTime |-> clock,
    videoFramesSent |-> 0, audioSegmentsSent |-> 0 ]

\* The fields after construction; genai is set when an API key is configured.
\* continuing: the initializeLiveCoaching calls at their await of
\* initializeModels, in the order of the microtask queue; initializing,
\* reconnecting: the initializeLiveCoaching and the handleReconnection calls
\* awaiting createLiveSession, reconnecting with the caller that awaits the
\* call ("initializeLiveCoaching", "monitor") or does not ("retry"); requests, chats: the
\* getCoachingAdvice and the respondToChat calls awaiting generateContent;
\* retries: the pending retry timers; monitors: the running monitor intervals.
newGeminiService(apiKey, clock) ==
  [ genai |-> apiKey,
    generatorModel |-> FALSE,
    verifierModel |-> FALSE,
    liveSession |-> Undefined,
    verifier |-> FALSE,
    sessionMetrics |-> initializeMetrics(clock),
    reconnectAttempts |-> 0,
    currentModelIndex |-> 0,
    videoStream |-> FALSE,
    continuing |-> <<>>,
    initializing |-> <<>>,
    reconnecting |-> <<>>,
    requests |-> <<>>,
    chats |-> <<>>,
    retries |-> 0,
    monitors |-> 0 ]

\* A live session is known by the model configuration it was created with.
createLiveSession(modelConfig) == Some([ modelConfig |-> modelConfig ])

\* sessionCost in millionths of a dollar: $0.004 per 1000 tokens.
updateCostMetrics(s) ==
  LET tokenCount == s.sessionMetrics.videoFramesSent * 263
                      + s.sessionMetrics.audioSegmentsSent * 32
  IN  [ s EXCEPT !.sessionMetrics.tokenCount = tokenCount,
                 !.sessionMetrics.sessionCost = tokenCount * 4 ]

\* handleReconnection with no limit on the attempts.
handleReconnectionUnlimited(s, caller) ==
  LET index == IF s.currentModelIndex < Len(MODEL_CONFIGS) - 1
                 THEN s.currentModelIndex + 1
                 ELSE s.currentModelIndex
      t == [ s EXCEPT !.reconnectAttempts = @ + 1, !.currentModelIndex = index ]
  IN  IF ~s.generatorModel
        THEN [ t EXCEPT !.reconnectAttempts = 0 ]
        ELSE [ t EXCEPT !.reconnecting =
                 Append(@, [ modelConfig |-> MODEL_CONFIGS[index + 1], caller |-> caller ]) ]

\* A call of handleReconnection, up to where it awaits createLiveSession.
\* caller: who called.
handleReconnection(s, caller) ==
  IF s.reconnectAttempts >= maxReconnectAttempts
    THEN s
    ELSE LET index == IF s.currentModelIndex < Len(MODEL_CONFIGS) - 1
                        THEN s.currentModelIndex + 1
                        ELSE s.currentModelIndex
             t == [ s EXCEPT !.reconnectAttempts = @ + 1, !.currentModelIndex = index ]
         IN  IF ~s.generatorModel
               THEN [ t EXCEPT !.reconnectAttempts = 0 ]
               ELSE [ t EXCEPT !.reconnecting =
                        Append(@, [ modelConfig |-> MODEL_CONFIGS[index + 1],
                                    caller |-> caller ]) ]

\* The calls that still await when the i-th has its reply.
Without(calls, i) == SubSeq(calls, 1, i - 1) \o SubSeq(calls, i + 1, Len(calls))

\* The rest of the i-th awaiting handleReconnection call, and of the monitor
\* callback if it awaits the call.  created: whether createLiveSession
\* returns rather than throws.
handleReconnectionResumes(s, i, created) ==
  LET call == s.reconnecting[i]
      rest == Without(s.reconnecting, i)
      t == IF created
             THEN [ s EXCEPT !.reconnecting = rest,
                             !.liveSession = createLiveSession(call.modelConfig),
                             !.reconnectAttempts = 0 ]
             ELSE [ s EXCEPT !.reconnecting = rest, !.retries = @ + 1 ]
  IN  IF call.caller = "monitor" THEN updateCostMetrics(t) ELSE t

\* A call of initializeLiveCoaching, up to where it awaits initializeModels,
\* which has by then run to its end or to its throw.  outcome: how far
\* initializeModels gets.
initializeLiveCoaching(s, outcome, clock) ==
  IF ~s.genai
    THEN [ s EXCEPT !.verifier = TRUE ]
    ELSE LET a == [ s EXCEPT !.verifier = TRUE, !.sessionMetrics = initializeMetrics(clock) ]
             g == [ a EXCEPT !.generatorModel = TRUE ]
             v == [ g EXCEPT !.verifierModel = TRUE ]
         IN  CASE outcome = "generatorThrows" ->
                    [ a EXCEPT !.continuing = Append(@, [ threw |-> TRUE ]) ]
               [] outcome = "verifierThrows" ->
                    [ g EXCEPT !.continuing = Append(@, [ threw |-> TRUE ]) ]
               [] outcome = "modelsReady" ->
                    [ v EXCEPT !.continuing = Append(@, [ threw |-> FALSE ]) ]

\* The first call at its await of initializeModels goes on, up to where it
\* awaits createLiveSession or, when initializeModels threw, through the
\* catch block's handleReconnection.
initializeLiveCoachingContinues(s) ==
  LET t == [ s EXCEPT !.continuing = Tail(@) ]
  IN  IF s.continuing[1].threw
        THEN handleReconnection(t, "initializeLiveCoaching")
        ELSE [ t EXCEPT !.initializing =
                 Append(@, [ modelConfig |-> MODEL_CONFIGS[t.currentModelIndex + 1] ]) ]

\* The rest of the i-th initializeLiveCoaching call awaiting
\* createLiveSession.  created: whether createLiveSession returns rather
\* than throws.
initializeLiveCoachingResumes(s, i, created) ==
  LET call == s.initializing[i]
      t == [ s EXCEPT !.initializing = Without(s.initializing, i) ]
  IN  IF created
        THEN [ t EXCEPT !.liveSession = createLiveSession(call.modelConfig),
                        !.monitors = @ + 1 ]
        ELSE handleReconnection(t, "initializeLiveCoaching")

\* One firing of a monitor interval.  old: whether the session is older
\* than nine minutes.
monitorCallback(s, old) ==
  IF old
    THEN LET t == handleReconnection([ s EXCEPT !.monitors = @ - 1 ], "monitor")
         IN  IF Len(t.reconnecting) > Len(s.reconnecting) THEN t ELSE updateCostMetrics(t)
    ELSE updateCostMetrics(s)

\* One firing of a retry timer.
retryCallback(s) == handleReconnection([ s EXCEPT !.retries = @ - 1 ], "retry")

Outcomes == { "generatorThrows", "verifierThrows", "modelsReady" }

\* getCoachingAdvice returns one of the simulated sentences, picked at
\* random: the model does not say which.
simulatedAdvice(s, sessionErrorsArray) ==
  [ service |-> s, sessionErrors |-> sessionErrorsArray, simulated |-> TRUE, value |-> Undefined ]

\* result.response.text() || "Keep focusing on your fundamentals"
rawAdviceOf(text) == IF text # "" THEN text ELSE "Keep focusing on your fundamentals"

\* What getCoachingAdvice does with v, the result of verifyAdvice, and
\* isTimely, the result of validateTimeSensitivity.
filterAdvice(s, sessionErrorsArray, rawAdvice, v, isTimely) ==
  IF v.threw THEN simulatedAdvice(s, sessionErrorsArray)
  ELSE IF ~v.value[1].isValid \/ ~isTimely
    THEN [ service |-> s,
           sessionErrors |-> v.sessionErrors,
           simulated |-> ~Truthy(v.value[1].modifiedAdvice),
           value |-> IF Truthy(v.value[1].modifiedAdvice)
                       THEN v.value[1].modifiedAdvice ELSE Undefined ]
  ELSE [ service |-> [ s EXCEPT !.sessionMetrics.tokenCount = @ + 100 ],
         sessionErrors |-> v.sessionErrors,
         simulated |-> FALSE,
         value |-> IF Truthy(v.value[1].modifiedAdvice)
                     THEN v.value[1].modifiedAdvice ELSE Some(rawAdvice) ]

\* A call of getCoachingAdvice, up to where it awaits generateContent, if it
\* gets there: without a live session or a verifier it returns a simulated
\* sentence, and reading gameContext.gameState of a missing context throws
\* inside the try block.  clock: the time of the call.
getCoachingAdvice(s, gameContext, clock) ==
  IF s.liveSession = Undefined \/ ~s.verifier \/ gameContext = Undefined
    THEN [ service |-> s, pending |-> FALSE ]
    ELSE [ service |-> [ s EXCEPT !.requests =
                           Append(@, [ timestamp |-> clock, gameContext |-> gameContext ]) ],
           pending |-> TRUE ]

\* The rest of the i-th awaiting getCoachingAdvice call: the service's
\* fields and the log afterwards, and the text returned.  text: what the
\* model generated, if the request did not fail; clock: the time of the
\* reply.  The verifier is the one the service has then.
getCoachingAdviceResumes(s, syllabus, sessionErrorsArray, i, text, clock) ==
  LET request == s.requests[i]
      t == [ s EXCEPT !.requests = Without(s.requests, i) ]
  IN  IF text = Undefined
        THEN simulatedAdvice(t, sessionErrorsArray)
        ELSE filterAdvice(t, sessionErrorsArray, rawAdviceOf(text[1]),
                          verifyAdvice(syllabus, sessionErrorsArray, rawAdviceOf(text[1]),
                                       request.gameContext, clock),
                          validateTimeSensitivity(rawAdviceOf(text[1]), request.timestamp,
                                                  Some(request.gameContext[1].gameTime), clock))

\* getSimulatedChatResponse returns one of five canned responses, picked
\* at random, with confidence 0.7: the model does not say which.
simulatedChatResponse(sessionErrorsArray) ==
  [ sessionErrors |-> sessionErrorsArray, simulated |-> TRUE, text |-> Undefined,
    confidence |-> [ num |-> 7, den |-> 10 ] ]

\* response.text || "Let me help you with that."
textResponseOf(text) == IF text # "" THEN text ELSE "Let me help you with that."

\* What respondToChat does with v, the result of verifyAdvice.
chatResponse(sessionErrorsArray, textResponse, v) ==
  IF v.threw THEN simulatedChatResponse(sessionErrorsArray)
  ELSE [ sessionErrors |-> v.sessionErrors,
         simulated |-> FALSE,
         text |-> IF Truthy(v.value[1].modifiedAdvice)
                    THEN v.value[1].modifiedAdvice ELSE Some(textResponse),
         confidence |-> v.value[1].confidence ]

\* A call of respondToChat, up to where it awaits generateContent, if it
\* gets there: without a live session or a verifier it returns a simulated
\* response.
respondToChat(s, gameContext) ==
  IF s.liveSession = Undefined \/ ~s.verifier
    THEN [ service |-> s, pending |-> FALSE ]
    ELSE [ service |-> [ s EXCEPT !.chats = Append(@, [ gameContext |-> gameContext ]) ],
           pending |-> TRUE ]

\* The rest of the i-th awaiting respondToChat call: the log afterwards and
\* the response returned.  text: what the model generated, if the request
\* did not fail.
respondToChatResumes(s, syllabus, sessionErrorsArray, i, text, clock) ==
  IF text = Undefined
    THEN simulatedChatResponse(sessionErrorsArray)
    ELSE chatResponse(sessionErrorsArray, textResponseOf(text[1]),
                      verifyAdvice(syllabus, sessionErrorsArray, textResponseOf(text[1]),
                                   s.chats[i].gameContext, clock))

\* resetForNextUser that also goes back to the first model configuration.
resetForNextUserFirstModel(s, clock) ==
  [ s EXCEPT !.sessionMetrics = initializeMetrics(clock),
             !.reconnectAttempts = 0,
             !.currentModelIndex = 0,
             !.videoStream = FALSE ]

resetForNextUser(s, clock) ==
  [ s EXCEPT !.sessionMetrics = initializeMetrics(clock),
             !.reconnectAttempts = 0,
             !.videoStream = FALSE ]

\* The games a visitor picks and what the generator model replies.
ServiceCategories == { "moba", "fps" }

Replies ==
  { Undefined, Some("always engage"), Some("Try to focus on your goals"),
    Some("Great rotation"), Some("Stay behind minions, ward and engage"), Some("") }

\* How long a slow reply of the generator model takes, in milliseconds.
SlowReply == 3001

\* The booth application's state when the page loads: whether the React
\* tree is mounted and whether a state update awaits its render, the App's
\* view, the GameProvider's state (sessions counts the session ids given
\* out), and the state of the page on display.  The fields from
\* earlyReturn to keyMomentsTimer are the LiveCoachPage's (a timer field
\* tells whether the interval is set), those from analysis to analysing the
\* RecapPage's; each has its initial value while its page is not mounted.
newApp ==
  [ mounted |-> TRUE,
    rendering |-> FALSE,
    currentView |-> "signup",
    user |-> Undefined,
    currentSession |-> Undefined,
    sessionHistory |-> <<>>,
    sessions |-> 0,
    earlyReturn |-> FALSE,
    isAIActive |-> TRUE,
    isPaused |-> FALSE,
    gameTime |-> 0,
    gameTimer |-> FALSE,
    coachTimer |-> FALSE,
    statsTimer |-> FALSE,
    keyMomentsTimer |-> FALSE,
    analysis |-> Undefined,
    isLoadingAnalysis |-> TRUE,
    analysing |-> FALSE ]

\* The module's singleton before any visitor: no verifier yet, so the
\* verifier's fields are not read until initializeLiveCoaching sets them.
InitService ==
  /\ gameCategory = ""
  /\ currentGameSyllabus = newCoachingVerifier("")
  /\ sessionErrors = 1
  /\ heap = [ r \in Refs |-> <<>> ]
  /\ snapshot = Undefined
  /\ now = 0
  /\ ret = [ op |-> "new" ]
  /\ earlier = Undefined
  /\ \E apiKey \in BOOLEAN : service = newGeminiService(apiKey, 0)
  /\ app = newApp

\* No more calls and timers pending than the model follows.
WithinPending(s) ==
  /\ Len(s.continuing) + Len(s.initializing) + Len(s.reconnecting) <= MaxPending
  /\ Len(s.requests) + Len(s.chats) <= MaxPending
  /\ s.retries <= MaxPending
  /\ s.monitors <= MaxPending

\* Timer callbacks, replies and the visitor's answers are tasks: one runs
\* only when no microtask is queued.  Calls of the service's methods can be
\* made at any time, also one after the other in one task.
NoMicrotask == service.continuing = <<>>

\* this.verifier = new CoachingVerifier(gameCategory), then the rest up to
\* the await of initializeModels.
InitializeLiveCoaching(category, outcome) ==
  LET r == NewRef(Live)
      s == initializeLiveCoaching(service, outcome, now)
  IN  /\ WithinPending(s)
      /\ gameCategory' = category
      /\ currentGameSyllabus' = newCoachingVerifier(category)
      /\ sessionErrors' = r
      /\ heap' = Collect([ heap EXCEPT ![r] = <<>> ], { r } \cup Range(snapshot))
      /\ service' = s
      /\ ret' = [ op |-> "initializeLiveCoaching", pending |-> service.genai,
                  value |-> Undefined ]
      /\ UNCHANGED << app, snapshot, now, earlier >>

\* The microtask of the first call at its await of initializeModels.  The
\* call then awaits createLiveSession, itself or in handleReconnection, or
\* it returns null.
InitializationContinues ==
  /\ service.continuing # <<>>
  /\ service' = initializeLiveCoachingContinues(service)
  /\ ret' = [ op |-> "initializeLiveCoaching",
              pending |-> \/ Len(service'.initializing) > Len(service.initializing)
                          \/ Len(service'.reconnecting) > Len(service.reconnecting),
              value |-> Undefined ]
  /\ UNCHANGED << app, gameCategory, currentGameSyllabus, sessionErrors, heap, snapshot, now, earlier >>

\* createLiveSession returns to, or throws in, the i-th awaiting
\* initializeLiveCoaching call.  When it throws, the call awaits
\* handleReconnection, which may await createLiveSession in turn.
InitializationResumes(i, created) ==
  /\ NoMicrotask
  /\ i \in DOMAIN service.initializing
  /\ WithinPending(initializeLiveCoachingResumes(service, i, created))
  /\ service' = initializeLiveCoachingResumes(service, i, created)
  /\ ret' = [ op |-> "initializeLiveCoaching",
              pending |-> Len(service'.reconnecting) > Len(service.reconnecting),
              value |-> IF created THEN service'.liveSession ELSE Undefined ]
  /\ UNCHANGED << app, gameCategory, currentGameSyllabus, sessionErrors, heap, snapshot, now, earlier >>

\* createLiveSession returns to, or throws in, the i-th awaiting
\* handleReconnection call; an initializeLiveCoaching call that awaits it
\* returns null.
ReconnectionResumes(i, created) ==
  /\ NoMicrotask
  /\ i \in DOMAIN service.reconnecting
  /\ WithinPending(handleReconnectionResumes(service, i, created))
  /\ service' = handleReconnectionResumes(service, i, created)
  /\ ret' = IF service.reconnecting[i].caller = "initializeLiveCoaching"
              THEN [ op |-> "initializeLiveCoaching", pending |-> FALSE, value |-> Undefined ]
              ELSE [ op |-> "handleReconnection", created |-> created ]
  /\ UNCHANGED << app, gameCategory, currentGameSyllabus, sessionErrors, heap, snapshot, now, earlier >>

\* setTimeout(() => this.handleReconnection(), 5000) fires.
RetryFires ==
  /\ NoMicrotask
  /\ service.retries > 0
  /\ WithinPending(retryCallback(service))
  /\ service' = retryCallback(service)
  /\ ret' = [ op |-> "retry" ]
  /\ UNCHANGED << app, gameCategory, currentGameSyllabus, sessionErrors, heap, snapshot, now, earlier >>

\* A monitor interval fires.
MonitorFires(old) ==
  /\ NoMicrotask
  /\ service.monitors > 0
  /\ WithinPending(monitorCallback(service, old))
  /\ service' = monitorCallback(service, old)
  /\ ret' = [ op |-> "monitor", old |-> old ]
  /\ UNCHANGED << app, gameCategory, currentGameSyllabus, sessionErrors, heap, snapshot, now, earlier >>

\* startScreenCapture: if the visitor grants the capture, videoStream is set
\* and the analysis interval starts.  The interval's callback does nothing
\* here: captureVideoFrame returns null for a video element that has no
\* data yet (readyState 0), so no frame is counted.
StartScreenCapture(granted) ==
  /\ NoMicrotask
  /\ service' = [ service EXCEPT !.videoStream = IF granted THEN TRUE ELSE @ ]
  /\ ret' = [ op |-> "startScreenCapture", value |-> granted ]
  /\ UNCHANGED << app, gameCategory, currentGameSyllabus, sessionErrors, heap, snapshot, now, earlier >>

\* stopScreenCapture: the stream's tracks are stopped, videoStream is null
\* and the analysis interval is cleared.
StopScreenCapture ==
  /\ service' = [ service EXCEPT !.videoStream = FALSE ]
  /\ ret' = [ op |-> "stopScreenCapture" ]
  /\ UNCHANGED << app, gameCategory, currentGameSyllabus, sessionErrors, heap, snapshot, now, earlier >>

\* The generator model takes its time: SlowReply ms pass.
Stall ==
  /\ now < MaxClock * SlowReply
  /\ now' = now + SlowReply
  /\ UNCHANGED << app, gameCategory, currentGameSyllabus, sessionErrors, heap, snapshot, ret, earlier, service >>

\* A getCoachingAdvice call is made: it returns a simulated sentence or
\* awaits the generator model.
GetCoachingAdvice(gameContext) ==
  /\ WithinPending(getCoachingAdvice(service, gameContext, now).service)
  /\ service' = getCoachingAdvice(service, gameContext, now).service
  /\ ret' = IF getCoachingAdvice(service, gameContext, now).pending
              THEN [ op |-> "getCoachingAdvice", pending |-> TRUE ]
              ELSE [ op |-> "getCoachingAdvice", pending |-> FALSE,
                     text |-> Undefined, gameContext |-> gameContext,
                     timestamp |-> now, at |-> now,
                     simulated |-> TRUE, value |-> Undefined ]
  /\ UNCHANGED << app, gameCategory, currentGameSyllabus, sessionErrors, heap, snapshot, now, earlier >>

\* The state after the awaiting getCoachingAdvice call of request has
\* returned r.
GetCoachingAdviceReturns(r, request, text) ==
  /\ Len(r.sessionErrors) <= MaxLog
  /\ r.service.sessionMetrics.tokenCount <= 100 * MaxRequests
  /\ service' = r.service
  /\ heap' = [ heap EXCEPT ![sessionErrors] = r.sessionErrors ]
  /\ ret' = [ op |-> "getCoachingAdvice", pending |-> FALSE,
              text |-> text, gameContext |-> request.gameContext,
              timestamp |-> request.timestamp, at |-> now,
              simulated |-> r.simulated, value |-> r.value ]
  /\ UNCHANGED << app, gameCategory, currentGameSyllabus, sessionErrors, snapshot, now, earlier >>

\* generateContent replies to, or fails, the i-th awaiting getCoachingAdvice
\* call.
GetCoachingAdviceResumes(i, text) ==
  /\ NoMicrotask
  /\ i \in DOMAIN service.requests
  /\ GetCoachingAdviceReturns(
       getCoachingAdviceResumes(service, currentGameSyllabus, Log, i, text, now),
       service.requests[i], text)

\* A respondToChat call is made: it returns a simulated response or awaits
\* the generator model.
RespondToChat(gameContext) ==
  /\ WithinPending(respondToChat(service, gameContext).service)
  /\ service' = respondToChat(service, gameContext).service
  /\ ret' = IF respondToChat(service, gameContext).pending
              THEN [ op |-> "respondToChat", pending |-> TRUE ]
              ELSE [ op |-> "respondToChat", pending |-> FALSE,
                     text |-> Undefined, gameContext |-> gameContext,
                     simulated |-> TRUE,
                     value |-> [ text |-> simulatedChatResponse(Log).text,
                                 confidence |-> simulatedChatResponse(Log).confidence ] ]
  /\ UNCHANGED << app, gameCategory, currentGameSyllabus, sessionErrors, heap, snapshot, now, earlier >>

\* The state after the awaiting respondToChat call of chat has returned r.
RespondToChatReturns(r, i, text) ==
  /\ Len(r.sessionErrors) <= MaxLog
  /\ service' = [ service EXCEPT !.chats = Without(service.chats, i) ]
  /\ heap' = [ heap EXCEPT ![sessionErrors] = r.sessionErrors ]
  /\ ret' = [ op |-> "respondToChat", pending |-> FALSE,
              text |-> text, gameContext |-> service.chats[i].gameContext,
              simulated |-> r.simulated,
              value |-> [ text |-> r.text, confidence |-> r.confidence ] ]
  /\ UNCHANGED << app, gameCategory, currentGameSyllabus, sessionErrors, snapshot, now, earlier >>

\* generateContent replies to, or fails, the i-th awaiting respondToChat call.
RespondToChatResumes(i, text) ==
  /\ NoMicrotask
  /\ i \in DOMAIN service.chats
  /\ RespondToChatReturns(
       respondToChatResumes(service, currentGameSyllabus, Log, i, text, now), i, text)

EndSession ==
  LET errors == IF service.verifier
                  THEN LET r == getSessionErrors(heap, sessionErrors, Live) IN r.heap[r.ref]
                  ELSE <<>>
  IN  /\ service' = [ service EXCEPT !.videoStream = FALSE, !.liveSession = Undefined ]
      /\ ret' = [ op |-> "endSession",
                  value |-> [ metrics |-> service.sessionMetrics,
                              errors |-> errors,
                              duration |-> now - service.sessionMetrics.startTime ] ]
      /\ UNCHANGED << app, gameCategory, currentGameSyllabus, sessionErrors, heap, snapshot, now, earlier >>

ResetForNextUser ==
  LET r == IF service.verifier
             THEN resetSession(heap, sessionErrors, Live)
             ELSE [ sessionErrors |-> sessionErrors, heap |-> heap ]
  IN  /\ service' = resetForNextUser(service, now)
      /\ sessionErrors' = r.sessionErrors
      /\ heap' = Collect(r.heap, { r.sessionErrors } \cup Range(snapshot))
      /\ ret' = [ op |-> "resetForNextUser" ]
      /\ UNCHANGED << app, gameCategory, currentGameSyllabus, snapshot, now, earlier >>

-----------------------------------------------------------------------------
(* The booth application: the App's current view, the GameProvider's       *)
(* state, and the LiveCoachPage and the RecapPage (the version with the    *)
(* Next User button, LiveCoachPage.tsx from line 378).  A handler is       *)
(* followed up to the end of the render it causes and of the effects of    *)
(* that render; a state update made by an effect, by a timer or by the     *)
(* continuation of an await is rendered in a later step, Render.  An error *)
(* thrown while rendering reaches the root, for App has no error boundary, *)
(* and React unmounts the whole tree.  The booth never calls               *)
(* initializeLiveCoaching.                                                 *)
(*                                                                         *)
(* LiveCoachPage calls a hook (the scroll effect) after its early return   *)
(* for a missing session, and only an effect of the page itself starts a   *)
(* session: the page is mounted without a session, stops at the early      *)
(* return, and throws at the first render that has the session.  No render *)
(* of the live view with a session is thus ever committed: its controls    *)
(* (pause, AI coach, chat, microphone, End Game) are never displayed, and  *)
(* its coaching, live-stats and key-moments effects never set their        *)
(* intervals.  These handlers and callbacks are therefore no steps here.   *)
(* The recap's video upload changes the RecapPage's own state only, three  *)
(* seconds after the file is chosen, and is left out.                      *)

\* Most ticks of the game timer the model follows before the render that
\* the start of the session has scheduled.
MaxGameTime == 2

\* The profiles the signup form can submit, by the fields that the steps
\* below read: inGameName is any non-empty string, gameCategory and
\* trainingMode are the enumerations of userProfileSchema.
InGameNames == { "ana", "bo" }

ProfileCategories == { "moba", "fighting", "sport" }

TrainingModes == { "live", "post" }

Users ==
  [ inGameName : InGameNames, gameCategory : ProfileCategories, trainingMode : TrainingModes ]

\* startSession(user.gameCategory): setCurrentSession(session) schedules a
\* render.
startSession(a) ==
  IF a.user = Undefined
    THEN a
    ELSE [ a EXCEPT !.currentSession =
                      Some([ id |-> a.sessions + 1,
                             userId |-> a.user[1].inGameName,
                             gameCategory |-> a.user[1].gameCategory,
                             endTime |-> Undefined,
                             aiMessages |-> <<>>,
                             chatHistory |-> <<>> ]),
                    !.sessions = @ + 1,
                    !.rendering = TRUE ]

endSession(a, clock) ==
  IF a.currentSession = Undefined
    THEN a
    ELSE LET endedSession == [ a.currentSession[1] EXCEPT !.endTime = Some(clock) ]
         IN  [ a EXCEPT !.sessionHistory = Append(@, endedSession),
                        !.currentSession = Some(endedSession),
                        !.rendering = TRUE ]

\* The tree after an error thrown while rendering: the effects' cleanups
\* have cleared the intervals, and the state of App, of GameProvider and
\* of the pages is gone with their components.
unmountTree == [ newApp EXCEPT !.mounted = FALSE, !.currentView = "none" ]

\* The four interval effects of the LiveCoachPage: whether each leaves its
\* interval set when it runs after a render with the values of a.
gameTimerEffect(a) == ~a.isPaused

coachingEffect(a) == ~(~a.isAIActive \/ a.isPaused \/ a.currentSession = Undefined)

liveStatsEffect(a) == ~(a.isPaused \/ a.currentSession = Undefined)

keyMomentsEffect(a) == ~(a.isPaused \/ a.currentSession = Undefined)

\* The LiveCoachPage stops at its early return and shows the loading
\* screen: it calls no hook beyond that point.
returnsEarly(a) == a.user = Undefined \/ a.currentSession = Undefined

\* The effects of a committed render of the LiveCoachPage, which all read
\* the values of that render: the start-session effect, then the interval
\* effects.
liveCoachEffects(a) ==
  LET s == IF a.user # Undefined /\ a.currentSession = Undefined THEN startSession(a) ELSE a
  IN  [ s EXCEPT !.gameTimer = gameTimerEffect(a),
                 !.coachTimer = coachingEffect(a),
                 !.statsTimer = liveStatsEffect(a),
                 !.keyMomentsTimer = keyMomentsEffect(a) ]

\* The LiveCoachPage unmounts: its state is gone and the effects' cleanups
\* clear the intervals.
unmountLiveCoachPage(a) ==
  [ a EXCEPT !.earlyReturn = FALSE, !.isAIActive = TRUE, !.isPaused = FALSE, !.gameTime = 0,
             !.gameTimer = FALSE, !.coachTimer = FALSE, !.statsTimer = FALSE,
             !.keyMomentsTimer = FALSE ]

\* The RecapPage unmounts: its state is gone, and what generateAnalysis
\* sets after its await is set on no component.
unmountRecapPage(a) ==
  [ a EXCEPT !.analysis = Undefined, !.isLoadingAnalysis = TRUE, !.analysing = FALSE ]

\* The LiveCoachPage mounts in place of the page on display: its state is
\* initial, its first render is committed, and the effects run.
mountLiveCoachPage(a) ==
  LET m == [ unmountRecapPage(a) EXCEPT !.currentView = "live", !.rendering = FALSE,
                                        !.earlyReturn = returnsEarly(a) ]
  IN  liveCoachEffects(m)

\* The RecapPage mounts in place of the page on display.  Its first effect
\* ends a session that has no endTime; its second calls generateAnalysis,
\* which awaits geminiService.generatePostGameAnalysis if there is a
\* session or a user (without a session, for a session made up on the
\* spot, which GameProvider never holds) and else sets isLoadingAnalysis
\* to false at once.
mountRecapPage(a, clock) ==
  LET r == [ unmountLiveCoachPage(a) EXCEPT
               !.currentView = "recap", !.rendering = FALSE, !.analysis = Undefined,
               !.isLoadingAnalysis = (a.currentSession # Undefined \/ a.user # Undefined),
               !.analysing = (a.currentSession # Undefined \/ a.user # Undefined) ]
  IN  IF r.currentSession # Undefined /\ r.currentSession[1].endTime = Undefined
        THEN endSession(r, clock)
        ELSE r

\* The SignupPage mounts in place of the RecapPage.
mountSignupPage(a) ==
  [ unmountRecapPage(a) EXCEPT !.currentView = "signup", !.rendering = FALSE ]

\* What generatePostGameAnalysis returns, by its summary: the service has
\* no field named model, so this.model is undefined and the fixed analysis
\* is returned.
generatePostGameAnalysis == "Good game! You showed improvement in several areas."

\* React renders the pending updates and commits.  The LiveCoachPage
\* throws when it gets past the early return at which its last render
\* stopped, or stops at it after a render that did not (more, or fewer,
\* hooks than during the previous render).  The RecapPage, once it has an
\* analysis to show, reads currentSession.aiMessages and throws if there is
\* no session.
render(a) ==
  CASE a.currentView = "live" ->
         IF returnsEarly(a) # a.earlyReturn
           THEN unmountTree
           ELSE liveCoachEffects([ a EXCEPT !.rendering = FALSE ])
    [] a.currentView = "recap" ->
         IF /\ a.user # Undefined
            /\ ~a.isLoadingAnalysis
            /\ a.analysis # Undefined
            /\ a.currentSession = Undefined
           THEN unmountTree
           ELSE [ a EXCEPT !.rendering = FALSE ]
    [] OTHER -> [ a EXCEPT !.rendering = FALSE ]

\* The signup form is submitted with a profile that passes its schema:
\* setUser(data); onComplete(data.trainingMode).
HandleSignupComplete(user) ==
  LET a == [ app EXCEPT !.user = Some(user) ]
  IN  /\ app.mounted
      /\ app.currentView = "signup"
      /\ app' = IF user.trainingMode = "post"
                  THEN mountRecapPage(a, now)
                  ELSE mountLiveCoachPage(a)
      /\ ret' = [ op |-> "handleSignupComplete", value |-> user.trainingMode ]
      /\ UNCHANGED << gameCategory, currentGameSyllabus, sessionErrors, heap, snapshot, now,
                      earlier, service >>

\* The pending updates are rendered.
Render ==
  /\ app.mounted
  /\ app.rendering
  /\ app' = render(app)
  /\ ret' = [ op |-> "render", threw |-> ~render(app).mounted ]
  /\ UNCHANGED << gameCategory, currentGameSyllabus, sessionErrors, heap, snapshot, now, earlier,
                  service >>

\* The game timer's callback: setGameTime(prev => prev + 1).  The interval
\* is set by the effects of the LiveCoachPage's first render, together with
\* the update that starts the session; its callback comes before the
\* render of that update only on a page held up for a second.
GameTimerFires ==
  /\ app.mounted
  /\ app.currentView = "live"
  /\ app.gameTimer
  /\ app.gameTime < MaxGameTime
  /\ app' = [ app EXCEPT !.gameTime = @ + 1, !.rendering = TRUE ]
  /\ ret' = [ op |-> "gameTimer" ]
  /\ UNCHANGED << gameCategory, currentGameSyllabus, sessionErrors, heap, snapshot, now, earlier,
                  service >>

\* generateAnalysis goes on after its await: setAnalysis(result);
\* setIsLoadingAnalysis(false).
GenerateAnalysisResumes ==
  /\ app.mounted
  /\ app.currentView = "recap"
  /\ app.analysing
  /\ app' = [ app EXCEPT !.analysis = Some(generatePostGameAnalysis),
                         !.isLoadingAnalysis = FALSE,
                         !.analysing = FALSE,
                         !.rendering = TRUE ]
  /\ ret' = [ op |-> "generateAnalysis" ]
  /\ UNCHANGED << gameCategory, currentGameSyllabus, sessionErrors, heap, snapshot, now, earlier,
                  service >>

\* The recap's buttons are displayed once there is a user.
HandlePlayAgain ==
  /\ app.mounted
  /\ app.currentView = "recap"
  /\ app.user # Undefined
  /\ app' = mountLiveCoachPage(app)
  /\ ret' = [ op |-> "handlePlayAgain" ]
  /\ UNCHANGED << gameCategory, currentGameSyllabus, sessionErrors, heap, snapshot, now, earlier,
                  service >>

HandleContinue ==
  /\ app.mounted
  /\ app.currentView = "recap"
  /\ app.user # Undefined
  /\ app' = mountSignupPage(app)
  /\ ret' = [ op |-> "handleContinue" ]
  /\ UNCHANGED << gameCategory, currentGameSyllabus, sessionErrors, heap, snapshot, now, earlier,
                  service >>

\* The recap's Next User button: geminiService.resetForNextUser(); onContinue().
NextUser ==
  LET r == IF service.verifier
             THEN resetSession(heap, sessionErrors, Live)
             ELSE [ sessionErrors |-> sessionErrors, heap |-> heap ]
  IN  /\ app.mounted
      /\ app.currentView = "recap"
      /\ app.user # Undefined
      /\ service' = resetForNextUser(service, now)
      /\ sessionErrors' = r.sessionErrors
      /\ heap' = Collect(r.heap, { r.sessionErrors } \cup Range(snapshot))
      /\ app' = mountSignupPage(app)
      /\ ret' = [ op |-> "nextUser" ]
      /\ UNCHANGED << gameCategory, currentGameSyllabus, snapshot, now, earlier >>

-----------------------------------------------------------------------------
(* Specifications.                                                         *)

\* A coaching session: one verifier, any sequence of calls.
Next ==
  \/ \E advice \in SessionTexts, gameContext \in Contexts : VerifyAdvice(advice, gameContext)
  \/ GetSessionErrors(FALSE)
  \/ ResetSession
  \/ Tick

Spec == Init /\ [][Next]_vars

\* verifyAdvice as a function: a verifier for any game, one call with any text.
NextVerdict ==
  \E advice \in Texts, gameContext \in Contexts : FirstVerifyAdvice(advice, gameContext)

SpecVerdict == Init /\ [][NextVerdict]_vars

\* validateTimeSensitivity as a function of the text and the elapsed time.
NextTime ==
  \/ \E advice \in TimeTexts, elapsed \in Elapsed, currentGameTime \in GameTimes :
       ValidateTimeSensitivity(advice, now - elapsed, currentGameTime)
  \/ Tick

SpecTime == Init /\ [][NextTime]_vars

\* A session whose caller keeps the arrays getSessionErrors returns and
\* writes to them.
NextSnapshot ==
  \/ \E advice \in SnapshotTexts, gameContext \in Contexts : VerifyAdvice(advice, gameContext)
  \/ \E keep \in BOOLEAN : GetSessionErrors(keep)
  \/ ResetSession
  \/ CallerPush
  \/ CallerPop
  \/ CallerOverwrite

SpecSnapshot == Init /\ [][NextSnapshot]_vars

\* A session with an observer who remembers one earlier verdict.
NextRepeat ==
  \/ \E advice \in RepeatTexts, gameContext \in Contexts : VerifyAdvice(advice, gameContext)
  \/ Remember
  \/ GetSessionErrors(FALSE)
  \/ ResetSession

SpecRepeat == Init /\ [][NextRepeat]_vars

\* A session with calls of every public method of the verifier.
NextLog ==
  \/ \E advice \in CaseTexts, gameContext \in Contexts : VerifyAdvice(advice, gameContext)
  \/ \E advice \in LogTimeTexts, elapsed \in LogElapsed :
       ValidateTimeSensitivity(advice, now - elapsed, Undefined)
  \/ GetSessionErrors(FALSE)
  \/ ResetSession
  \/ Tick

SpecLog == Init /\ [][NextLog]_vars

\* The booth: one service, visitor after visitor, asked for advice and for
\* answers in the chat while the screen is or is not captured.  Here the
\* models are always obtained and the live session is always created, so
\* nothing reconnects.
NextService ==
  \/ \E category \in ServiceCategories : InitializeLiveCoaching(category, "modelsReady")
  \/ InitializationContinues
  \/ \E i \in 1..MaxPending : InitializationResumes(i, TRUE)
  \/ \E gameContext \in Contexts : GetCoachingAdvice(gameContext)
  \/ \E i \in 1..MaxPending, text \in Replies : GetCoachingAdviceResumes(i, text)
  \/ \E gameContext \in Contexts : RespondToChat(gameContext)
  \/ \E i \in 1..MaxPending, text \in Replies : RespondToChatResumes(i, text)
  \/ Stall
  \/ \E granted \in BOOLEAN : StartScreenCapture(granted)
  \/ StopScreenCapture
  \/ EndSession
  \/ ResetForNextUser

SpecService == InitService /\ [][NextService]_vars

\* The service's connection to the Live API: initializations, reconnections,
\* timers and resets, without the requests for advice, for visitors who all
\* pick the same game (the connection does not depend on the game).
NextReconnect ==
  \/ \E outcome \in Outcomes : InitializeLiveCoaching("moba", outcome)
  \/ InitializationContinues
  \/ \E i \in 1..MaxPending, created \in BOOLEAN : InitializationResumes(i, created)
  \/ \E i \in 1..MaxPending, created \in BOOLEAN : ReconnectionResumes(i, created)
  \/ RetryFires
  \/ \E old \in BOOLEAN : MonitorFires(old)
  \/ EndSession
  \/ ResetForNextUser

SpecReconnect == InitService /\ [][NextReconnect]_vars

\* The booth application, whose pages never call initializeLiveCoaching.
NextLive ==
  \/ \E user \in Users : HandleSignupComplete(user)
  \/ Render
  \/ GameTimerFires
  \/ GenerateAnalysisResumes
  \/ HandlePlayAgain
  \/ HandleContinue
  \/ NextUser

SpecLive == InitService /\ [][NextLive]_vars

\* React runs a render it has scheduled, and the continuation of an await
\* whose promise is resolved runs.
FairLive ==
  /\ WF_vars(Render)
  /\ WF_vars(GenerateAnalysisResumes)

SpecLiveFair == SpecLive /\ FairLive


-----------------------------------------------------------------------------
(* Properties.  The tables below restate, per game and text, which         *)
(* principles have an invalid pattern in the text and which accept it.     *)

Verdict == ret.value[1]

PrinciplesWithInvalidPattern ==
  [ k \in SyllabusKeys |-> [ a \in Texts |->
      { i \in DOMAIN COACHING_SYLLABUS[k] :
          \E q \in Range(COACHING_SYLLABUS[k][i].invalidPatterns) :
            includes(toLowerCase(a), q) } ] ]

PrinciplesAccepting ==
  [ k \in SyllabusKeys |-> [ a \in Texts |->
      { i \in DOMAIN COACHING_SYLLABUS[k] :
          matchesCategory(toLowerCase(a), COACHING_SYLLABUS[k][i]).matches } ] ]

Least(S) == CHOOSE x \in S : \A y \in S : x <= y

\* C1: for a verifier of a known category, every verifyAdvice call with a
\* text that contains an invalid pattern of that category returns
\* isValid = false and makes the session error log exactly one entry longer,
\* also when the same text was already logged.
C1_InvalidPatternRejectedAndLogged ==
  [][ \A advice \in SessionTexts, gameContext \in Contexts :
        ( /\ gameCategory \in SyllabusKeys
          /\ PrinciplesWithInvalidPattern[gameCategory][advice] # {}
          /\ VerifyAdvice(advice, gameContext) )
        => /\ ~ret'.threw
           /\ ret'.value[1].isValid = FALSE
           /\ Len(Log') = Len(Log) + 1 ]_vars

\* The same rejected text was logged twice in a row.
C1_Witness ==
  /\ gameCategory \in SyllabusKeys
  /\ ret.op = "verifyAdvice"
  /\ PrinciplesWithInvalidPattern[gameCategory][ret.advice] # {}
  /\ ~Verdict.isValid
  /\ Len(Log) = 2
  /\ Log[1] = Log[2]

\* C2 as stated: when the text has an invalid pattern of a principle P2 and
\* passes the positive match of an earlier principle P1, the verdict is a
\* rejection whose category is P2's.
C2_CategoryOfLaterPrinciple ==
  (ret.op = "verifyAdvice" /\ gameCategory \in SyllabusKeys) =>
    \A p1, p2 \in DOMAIN COACHING_SYLLABUS[gameCategory] :
      ( /\ p1 < p2
        /\ p2 \in PrinciplesWithInvalidPattern[gameCategory][ret.advice]
        /\ p1 \in PrinciplesAccepting[gameCategory][ret.advice] )
      => /\ ~ret.threw
         /\ Verdict.isValid = FALSE
         /\ Verdict.category = Some(COACHING_SYLLABUS[gameCategory][p2].category)

\* C2, amended: in that case the verdict is a rejection, never P1's
\* acceptance, and its category is that of the first principle in list
\* order that has an invalid pattern in the text.
C2_RejectionBeforeAcceptance ==
  (ret.op = "verifyAdvice" /\ gameCategory \in SyllabusKeys) =>
    \A p1, p2 \in DOMAIN COACHING_SYLLABUS[gameCategory] :
      ( /\ p1 < p2
        /\ p2 \in PrinciplesWithInvalidPattern[gameCategory][ret.advice]
        /\ p1 \in PrinciplesAccepting[gameCategory][ret.advice] )
      => /\ ~ret.threw
         /\ Verdict.isValid = FALSE
         /\ Verdict.category =
              Some(COACHING_SYLLABUS[gameCategory]
                     [Least(PrinciplesWithInvalidPattern[gameCategory][ret.advice])].category)

\* A text P1 would accept was rejected for the invalid pattern of a later P2.
C2_Witness ==
  /\ ret.op = "verifyAdvice"
  /\ gameCategory \in SyllabusKeys
  /\ \E p1, p2 \in DOMAIN COACHING_SYLLABUS[gameCategory] :
       /\ p1 < p2
       /\ p2 \in PrinciplesWithInvalidPattern[gameCategory][ret.advice]
       /\ p1 \in PrinciplesAccepting[gameCategory][ret.advice]
       /\ Verdict.isValid = FALSE
       /\ Verdict.category = Some(COACHING_SYLLABUS[gameCategory][p2].category)

\* C3: for category moba, "I should always engage without vision" is
\* rejected with modifiedAdvice "Ward before engaging".
C3_WardBeforeEngaging ==
  ( /\ ret.op = "verifyAdvice"
    /\ gameCategory = "moba"
    /\ ret.advice = "I should always engage without vision" )
  => /\ ~ret.threw
     /\ Verdict.isValid = FALSE
     /\ Verdict.modifiedAdvice = Some("Ward before engaging")

\* C4: every validAdvice phrase of a principle P of the active category,
\* given as the whole text, is accepted with P's category and a confidence
\* of at least 0.3.
C4_ValidPhraseAccepted ==
  (ret.op = "verifyAdvice" /\ gameCategory \in SyllabusKeys) =>
    \A i \in DOMAIN COACHING_SYLLABUS[gameCategory] :
      ( /\ ret.advice \in Range(COACHING_SYLLABUS[gameCategory][i].validAdvice)
        /\ PrinciplesWithInvalidPattern[gameCategory][ret.advice] = {} )
      => /\ ~ret.threw
         /\ Verdict.isValid = TRUE
         /\ Verdict.category = Some(COACHING_SYLLABUS[gameCategory][i].category)
         /\ ~Greater(Quotient(3, 10), Verdict.confidence)

\* The urgency tiers as the specification's table gives them: trigger terms
\* and maximum age in ms, and the tiers whose terms occur in a text.
TierTerms ==
  << { "engage", "attack", "push" }, { "defend", "retreat", "back" },
     { "ward", "position", "farm" } >>

TierMaxAge == << 3000, 5000, 10000 >>

TiersOf ==
  [ a \in Texts |->
      { k \in DOMAIN TierTerms : \E term \in TierTerms[k] : includes(toLowerCase(a), term) } ]

\* C5: validateTimeSensitivity is true exactly when the elapsed time is at
\* most the maximum age of the text's tier (3000, 5000, 10000 ms), the
\* boundary included, and always true for a text with no tier term.
C5_TimelyWithinMaxAge ==
  ret.op = "validateTimeSensitivity" =>
    /\ TiersOf[ret.advice] = {} => ret.value = TRUE
    /\ \A k \in DOMAIN TierTerms :
         TiersOf[ret.advice] = { k } =>
           ret.value = (ret.at - ret.timestamp <= TierMaxAge[k])

\* "Engage now" is still valid exactly 3000 ms after it was issued.
C5_Witness ==
  /\ ret.op = "validateTimeSensitivity"
  /\ ret.advice = "Engage now"
  /\ ret.at - ret.timestamp = 3000
  /\ ret.value = TRUE

\* C6: a text with terms of several tiers is judged against the first of
\* them in the order immediate-action, reactive, positional.
C6_FirstTierApplies ==
  (ret.op = "validateTimeSensitivity" /\ Cardinality(TiersOf[ret.advice]) >= 2) =>
    ret.value = (ret.at - ret.timestamp <= TierMaxAge[Least(TiersOf[ret.advice])])

\* "Step backward" (it contains "back" and "ward") is stale after 5001 ms.
C6_Witness ==
  /\ ret.op = "validateTimeSensitivity"
  /\ ret.advice = "Step backward"
  /\ TiersOf[ret.advice] = { 2, 3 }
  /\ ret.at - ret.timestamp = 5001
  /\ ret.value = FALSE

\* C7: after resetSession the next getSessionErrors returns an empty
\* sequence, and the next verifyAdvice leaves a log of at most one entry,
\* of exactly one entry when it rejects for an invalid pattern.
C7_ResetEmptiesLog ==
  [][ ret.op = "resetSession" =>
        /\ GetSessionErrors(FALSE) => ret'.value = <<>>
        /\ \A advice \in RepeatTexts, gameContext \in Contexts :
             VerifyAdvice(advice, gameContext) =>
               Len(Log') = IF /\ gameCategory \in SyllabusKeys
                              /\ PrinciplesWithInvalidPattern[gameCategory][advice] # {}
                             THEN 1 ELSE 0 ]_vars

\* A rejection was logged earlier, and getSessionErrors now returns nothing.
C7_Witness ==
  /\ earlier # Undefined
  /\ earlier[1].logLength > 0
  /\ ret.op = "getSessionErrors"
  /\ ret.value = <<>>

\* C8: getSessionErrors returns a copy.  What a caller does to a returned
\* array never changes the log, every getSessionErrors returns the log as
\* the verifier holds it, and an array returned earlier is not changed by
\* later rejections or by resetSession.
C8_SnapshotIsACopy ==
  [][ /\ (CallerPush \/ CallerPop \/ CallerOverwrite) => Log' = Log
      /\ \A keep \in BOOLEAN : GetSessionErrors(keep) => ret'.value = Log /\ Log' = Log
      /\ ( /\ snapshot # Undefined
           /\ \/ ResetSession
              \/ \E advice \in SnapshotTexts, gameContext \in Contexts :
                   VerifyAdvice(advice, gameContext) )
         => heap'[snapshot[1]] = heap[snapshot[1]] ]_vars

\* The caller wrote to the array it kept, and a later getSessionErrors
\* returned the log without that write.
C8_Witness ==
  /\ snapshot # Undefined
  /\ "tampered" \in Range(heap[snapshot[1]])
  /\ ret.op = "getSessionErrors"
  /\ Len(ret.value) > 0
  /\ "tampered" \notin Range(ret.value)
  /\ ret.value = Log

\* C9: a verifier constructed with a category other than moba, fighting or
\* sport answers every verifyAdvice call on the generic path: confidence
\* 0.6, no category, no modifiedAdvice, isValid by the term heuristic, and
\* the log stays empty.
C9_UnknownCategoryGeneric ==
  (ret.op = "verifyAdvice" /\ gameCategory \notin SyllabusKeys) =>
    /\ ~ret.threw
    /\ ret.value # Undefined
    /\ Verdict.confidence = Quotient(6, 10)
    /\ Verdict.category = Undefined
    /\ Verdict.modifiedAdvice = Undefined
    /\ Verdict.isValid = isGenerallyValid(ret.advice)
    /\ Log = <<>>

\* C10: two verifyAdvice calls with the same text on the same verifier
\* return the same verdict, whatever calls and resets came between them,
\* whatever the log holds and whatever context each was given.
C10_VerdictDependsOnTextOnly ==
  (earlier # Undefined /\ ret.op = "verifyAdvice" /\ ret.advice = earlier[1].advice) =>
    /\ ret.threw = earlier[1].threw
    /\ ret.value = earlier[1].value

\* The same text was verified again with another context after a reset
\* had emptied the log, and it got the same verdict.
C10_Witness ==
  /\ earlier # Undefined
  /\ ret.op = "verifyAdvice"
  /\ ret.advice = earlier[1].advice
  /\ ret.gameContext # earlier[1].gameContext
  /\ ~ret.threw
  /\ Len(Log) < earlier[1].logLength
  /\ ret.value = earlier[1].value

\* C11: a verifier constructed with any string that is not a key of the
\* syllabus, the names inherited from Object.prototype included, has an
\* empty rule set, and its verifyAdvice returns without raising.
C11_UnknownCategoryEmptyAndSafe ==
  gameCategory \notin SyllabusKeys =>
    /\ currentGameSyllabus.kind = "empty"
    /\ ret.op = "verifyAdvice" => ~ret.threw

\* C12: every verifyAdvice call that returns isValid = false, for an
\* invalid pattern or for failing the generic heuristic, leaves one more
\* entry in the session error log (here: the first call on a verifier
\* leaves exactly one).
C12_EveryRejectionLogged ==
  (ret.op = "verifyAdvice" /\ ~ret.threw /\ ~Verdict.isValid) => Len(Log) = 1

\* C13: resetSession changes the error log and nothing else of the
\* verifier: the category and the syllabus bound at construction stay, and
\* for every text verifyAdvice returns after the reset the verdict (or the
\* failure) it would have returned before it.
C13_ResetKeepsVerdicts ==
  [][ ResetSession =>
        /\ gameCategory' = gameCategory
        /\ currentGameSyllabus' = currentGameSyllabus
        /\ \A advice \in RepeatTexts, gameContext \in Contexts :
             LET before == verifyAdvice(currentGameSyllabus, Log, advice, gameContext, now)
                 after == verifyAdvice(currentGameSyllabus', Log', advice, gameContext, now')
             IN  /\ after.threw = before.threw
                 /\ after.value = before.value ]_vars

\* A text rejected for an invalid pattern when the log already had an
\* entry was rejected again, with the same verdict, after a reset: the log
\* holds that one rejection only.
C13_Witness ==
  /\ earlier # Undefined
  /\ ret.op = "verifyAdvice"
  /\ ret.advice = earlier[1].advice
  /\ ~ret.threw
  /\ ~Verdict.isValid
  /\ Verdict.category # Undefined
  /\ earlier[1].logLength = 2
  /\ Len(Log) = 1
  /\ ret.value = earlier[1].value

\* C14: after resetForNextUser the service holds nothing of the previous
\* visitor: the metrics are zero, reconnectAttempts is 0, the verifier's
\* error log is empty, the model-fallback index is 0 and there is no live
\* session.
C14_ResetLeavesFreshService ==
  ret.op = "resetForNextUser" =>
    /\ service.sessionMetrics.tokenCount = 0
    /\ service.sessionMetrics.sessionCost = 0
    /\ service.sessionMetrics.videoFramesSent = 0
    /\ service.sessionMetrics.audioSegmentsSent = 0
    /\ service.reconnectAttempts = 0
    /\ Log = <<>>
    /\ service.currentModelIndex = 0
    /\ service.liveSession = Undefined

\* The score of a text against each principle of a game as the
\* specification counts it (one per keyword found, two per valid phrase
\* found), the principle's maximum score, and the principles whose ratio
\* of the two exceeds 3/10.
ScoreOf ==
  [ k \in SyllabusKeys |-> [ a \in Texts |-> [ i \in DOMAIN COACHING_SYLLABUS[k] |->
      LET p == COACHING_SYLLABUS[k][i]
      IN  Cardinality({ j \in DOMAIN p.keywords : includes(toLowerCase(a), p.keywords[j]) })
          + 2 * Cardinality({ j \in DOMAIN p.validAdvice :
                                includes(toLowerCase(a), toLowerCase(p.validAdvice[j])) }) ] ] ]

MaxScoreOf ==
  [ k \in SyllabusKeys |-> [ i \in DOMAIN COACHING_SYLLABUS[k] |->
      Len(COACHING_SYLLABUS[k][i].keywords) + Len(COACHING_SYLLABUS[k][i].validAdvice) ] ]

PrinciplesAbove ==
  [ k \in SyllabusKeys |-> [ a \in Texts |->
      { i \in DOMAIN COACHING_SYLLABUS[k] : 10 * ScoreOf[k][a][i] > 3 * MaxScoreOf[k][i] } ] ]

\* C15: every verdict has a confidence between 0 and 1: 3/10 when an
\* invalid pattern was hit, 6/10 on the generic path, and on a positive
\* match the lesser of score/maxScore and 1, which is more than 3/10.
C15_ConfidenceRange ==
  (ret.op = "verifyAdvice" /\ ~ret.threw) =>
    LET c == Verdict.confidence
        known == gameCategory \in SyllabusKeys
        hit == known /\ PrinciplesWithInvalidPattern[gameCategory][ret.advice] # {}
        above == IF known THEN PrinciplesAbove[gameCategory][ret.advice] ELSE {}
    IN  /\ c.den > 0 /\ 0 <= c.num /\ c.num <= c.den
        /\ hit => c.num * 10 = 3 * c.den
        /\ (~hit /\ above = {}) => c.num * 10 = 6 * c.den
        /\ (~hit /\ above # {}) =>
             LET score == ScoreOf[gameCategory][ret.advice][Least(above)]
                 maxScore == MaxScoreOf[gameCategory][Least(above)]
             IN  /\ c.num * 10 > 3 * c.den
                 /\ IF score >= maxScore THEN c.num = c.den
                    ELSE c.num * maxScore = score * c.den

\* A text whose keyword and phrase hits score 14 against a maximum of 10
\* was accepted with confidence 1.
C15_Witness ==
  /\ ret.op = "verifyAdvice"
  /\ gameCategory = "fighting"
  /\ ~ret.threw
  /\ Verdict.isValid
  /\ Verdict.category = Some("mixups")
  /\ ScoreOf[gameCategory][ret.advice][2] = 14
  /\ MaxScoreOf[gameCategory][2] = 10
  /\ Verdict.confidence = [ num |-> 1, den |-> 1 ]

\* C16: a text with no invalid pattern is accepted by the first principle
\* in list order whose score (one per keyword, two per valid phrase)
\* divided by its number of keywords and phrases is strictly more than
\* 3/10, with that quotient as confidence while it is at most 1; a text no
\* principle scores above 3/10, also one at exactly 3/10, goes to the
\* generic path.
C16_FirstPrincipleAboveThreshold ==
  ( /\ ret.op = "verifyAdvice"
    /\ gameCategory \in SyllabusKeys
    /\ PrinciplesWithInvalidPattern[gameCategory][ret.advice] = {} )
  => LET above == PrinciplesAbove[gameCategory][ret.advice]
     IN  /\ ~ret.threw
         /\ above = {} => (Verdict.category = Undefined /\ Verdict.modifiedAdvice = Undefined)
         /\ above # {} =>
              LET i == Least(above)
                  score == ScoreOf[gameCategory][ret.advice][i]
                  maxScore == MaxScoreOf[gameCategory][i]
              IN  /\ Verdict.isValid
                  /\ Verdict.category = Some(COACHING_SYLLABUS[gameCategory][i].category)
                  /\ score <= maxScore =>
                       Verdict.confidence.num * maxScore = score * Verdict.confidence.den

\* "buy gold item" scores 3 of 10 for itemization, exactly 3/10, and was
\* not accepted by it.
C16_Witness ==
  /\ ret.op = "verifyAdvice"
  /\ gameCategory = "moba"
  /\ ret.advice = "buy gold item"
  /\ ScoreOf[gameCategory][ret.advice][2] = 3
  /\ MaxScoreOf[gameCategory][2] = 10
  /\ Verdict.category = Undefined
  /\ Verdict.confidence = [ num |-> 3, den |-> 5 ]

\* C17: a text with invalid patterns of several principles is rejected
\* with the category, the warning and the replacement text of the first of
\* those principles in list order, found for the first of its patterns in
\* the text, and the call appends one log entry, not one per pattern.
C17_FirstPrincipleRejects ==
  ( /\ ret.op = "verifyAdvice"
    /\ gameCategory \in SyllabusKeys
    /\ Cardinality(PrinciplesWithInvalidPattern[gameCategory][ret.advice]) >= 2 )
  => LET p == COACHING_SYLLABUS[gameCategory]
                [Least(PrinciplesWithInvalidPattern[gameCategory][ret.advice])]
         j == Least({ n \in DOMAIN p.invalidPatterns :
                        includes(toLowerCase(ret.advice), p.invalidPatterns[n]) })
         correction == findCorrection(p.invalidPatterns[j], p.corrections)
     IN  /\ ~ret.threw
         /\ Verdict.isValid = FALSE
         /\ Verdict.category = Some(p.category)
         /\ Verdict.warning = Some("Advice contradicts expert principles for " \o p.category)
         /\ Verdict.modifiedAdvice =
              IF correction # Undefined THEN correction ELSE Some(getGenericAdvice(p.category))
         /\ Len(Log) = 1

\* "ignore enemy comp and always engage" names the itemization pattern
\* before the positioning one; positioning, first in the list, rejected it.
C17_Witness ==
  /\ ret.op = "verifyAdvice"
  /\ gameCategory = "moba"
  /\ ret.advice = "ignore enemy comp and always engage"
  /\ PrinciplesWithInvalidPattern[gameCategory][ret.advice] = { 1, 2 }
  /\ Verdict.category = Some("positioning")
  /\ Verdict.modifiedAdvice = Some("Focus on safe positioning")
  /\ Len(Log) = 1

\* The sentence the specification gives for each known category.
CannedSentence ==
  [ positioning |-> "Focus on safe positioning",
    itemization |-> "Build according to game state",
    teamfight |-> "Coordinate with your team",
    fundamentals |-> "Practice your basics",
    mixups |-> "Vary your approach",
    possession |-> "Maintain ball control",
    defense |-> "Stay organized defensively",
    attacking |-> "Look for scoring opportunities" ]

\* C18: a rejection for an invalid pattern carries as modifiedAdvice the
\* value of the first corrections entry whose key contains the matched
\* pattern or is contained in it, and without such an entry the sentence of
\* the principle's category ("Focus on fundamentals" for any other
\* category); it is never empty.
C18_CorrectionOrCannedSentence ==
  ( /\ ret.op = "verifyAdvice"
    /\ gameCategory \in SyllabusKeys
    /\ PrinciplesWithInvalidPattern[gameCategory][ret.advice] # {} )
  => LET p == COACHING_SYLLABUS[gameCategory]
                [Least(PrinciplesWithInvalidPattern[gameCategory][ret.advice])]
         matched == p.invalidPatterns[
                      Least({ n \in DOMAIN p.invalidPatterns :
                                includes(toLowerCase(ret.advice), p.invalidPatterns[n]) })]
         qualifying == { n \in DOMAIN p.corrections :
                           \/ includes(p.corrections[n][1], matched)
                           \/ includes(matched, p.corrections[n][1]) }
     IN  /\ ~ret.threw
         /\ Verdict.modifiedAdvice # Undefined
         /\ Verdict.modifiedAdvice[1] # ""
         /\ Verdict.modifiedAdvice[1] =
              IF qualifying # {} THEN p.corrections[Least(qualifying)][2]
              ELSE IF p.category \in DOMAIN CannedSentence THEN CannedSentence[p.category]
              ELSE "Focus on fundamentals"

\* "NEVER RETREAT from a fight" matched "never retreat"; neither
\* corrections key of positioning contains it or is contained in it, and
\* the text was replaced by the sentence for positioning.
C18_Witness ==
  /\ ret.op = "verifyAdvice"
  /\ gameCategory = "moba"
  /\ ret.advice = "NEVER RETREAT from a fight"
  /\ ~Verdict.isValid
  /\ Verdict.category = Some("positioning")
  /\ Verdict.modifiedAdvice = Some(CannedSentence["positioning"])

\* The terms of the generic heuristic as the specification lists them, and
\* those of them found in each lowercased text.
ActionableTerms == { "try", "focus", "consider", "practice", "improve", "work on" }

AbsoluteTerms == { "always", "never", "impossible", "guaranteed" }

TermsIn ==
  [ a \in Texts |->
      { t \in ActionableTerms \cup AbsoluteTerms : includes(toLowerCase(a), t) } ]

\* C19: on the generic path (no invalid pattern, no principle above 3/10,
\* or no rule set at all) isValid is true exactly when the lowercased text
\* has an actionable term and no absolute term; modifiedAdvice and
\* category are unset; a warning is present exactly when isValid is false.
C19_GenericHeuristic ==
  ( /\ ret.op = "verifyAdvice"
    /\ ~ret.threw
    /\ gameCategory \in SyllabusKeys =>
         /\ PrinciplesWithInvalidPattern[gameCategory][ret.advice] = {}
         /\ PrinciplesAbove[gameCategory][ret.advice] = {} )
  => /\ Verdict.isValid = ( /\ TermsIn[ret.advice] \cap ActionableTerms # {}
                            /\ TermsIn[ret.advice] \cap AbsoluteTerms = {} )
     /\ Verdict.modifiedAdvice = Undefined
     /\ Verdict.category = Undefined
     /\ (Verdict.warning # Undefined) = ~Verdict.isValid

\* A text with an actionable term ("practice") and an absolute one
\* ("never") failed the heuristic and got a warning.
C19_Witness ==
  /\ ret.op = "verifyAdvice"
  /\ gameCategory = "sport"
  /\ ret.advice = "You should never give up, practice more"
  /\ TermsIn[ret.advice] = { "practice", "never" }
  /\ PrinciplesAbove[gameCategory][ret.advice] = {}
  /\ Verdict.isValid = FALSE
  /\ Verdict.category = Undefined
  /\ Verdict.warning = Some("Advice not aligned with coaching principles")

\* C20: an accepted text comes back as modifiedAdvice in its original
\* letter case, followed by " - Consider enemy threat ranges" when the
\* accepting principle is positioning and the lowercased text contains
\* "position", by " - Check enemy builds first" when it is itemization and
\* the lowercased text contains "buy", and by nothing otherwise.
C20_EnhancementSuffix ==
  ( /\ ret.op = "verifyAdvice"
    /\ gameCategory \in SyllabusKeys
    /\ PrinciplesWithInvalidPattern[gameCategory][ret.advice] = {}
    /\ PrinciplesAbove[gameCategory][ret.advice] # {} )
  => LET category == COACHING_SYLLABUS[gameCategory]
                       [Least(PrinciplesAbove[gameCategory][ret.advice])].category
         suffix == IF category = "positioning" /\ includes(toLowerCase(ret.advice), "position")
                     THEN " - Consider enemy threat ranges"
                   ELSE IF category = "itemization" /\ includes(toLowerCase(ret.advice), "buy")
                     THEN " - Check enemy builds first"
                   ELSE ""
     IN  /\ ~ret.threw
         /\ Verdict.isValid
         /\ Verdict.modifiedAdvice = Some(ret.advice \o suffix)
         /\ SubSeq(Verdict.modifiedAdvice[1], 1, Len(ret.advice)) = ret.advice

\* "Position near the ward for vision on the map", with a capital P, was
\* accepted by positioning and given the positioning suffix.
C20_Witness ==
  /\ ret.op = "verifyAdvice"
  /\ gameCategory = "moba"
  /\ ret.advice = "Position near the ward for vision on the map"
  /\ Verdict.isValid
  /\ Verdict.category = Some("positioning")
  /\ Verdict.modifiedAdvice =
       Some("Position near the ward for vision on the map - Consider enemy threat ranges")

\* Pairs of texts that differ in letter case only.
CasePairs ==
  LET pairs == { << "always engage", "ALWAYS ENGAGE" >>,
                 << "Stay behind minions, ward and engage", "STAY BEHIND MINIONS, WARD AND ENGAGE" >>,
                 << "Try to focus on your goals", "TRY TO FOCUS ON YOUR GOALS" >>,
                 << "mash buttons", "Mash Buttons" >> }
  IN  pairs \cup { << q[2], q[1] >> : q \in pairs }

\* C21: a text and the same text in another letter case get verdicts with
\* the same isValid, category, confidence and presence of a warning, and
\* the same answer from validateTimeSensitivity.
C21_CaseInsensitive ==
  \A q \in CasePairs :
    /\ (ret.op = "verifyAdvice" /\ ret.advice = q[1]) =>
         LET other == verifyAdvice(currentGameSyllabus, Log, q[2], ret.gameContext, now)
         IN  /\ other.threw = ret.threw
             /\ ~ret.threw =>
                  /\ other.value[1].isValid = Verdict.isValid
                  /\ other.value[1].category = Verdict.category
                  /\ other.value[1].confidence = Verdict.confidence
                  /\ (other.value[1].warning = Undefined) = (Verdict.warning = Undefined)
    /\ (ret.op = "validateTimeSensitivity" /\ ret.advice = q[1]) =>
         validateTimeSensitivity(q[2], ret.timestamp, Undefined, ret.at) = ret.value

\* The text in capitals was accepted by positioning with 4/11, for two
\* keywords and the phrase stored as "Stay behind minions".
C21_Witness ==
  /\ ret.op = "verifyAdvice"
  /\ gameCategory = "moba"
  /\ ret.advice = "STAY BEHIND MINIONS, WARD AND ENGAGE"
  /\ Verdict.isValid
  /\ Verdict.category = Some("positioning")
  /\ Verdict.confidence = [ num |-> 4, den |-> 11 ]

IsPrefix(a, b) == Len(a) <= Len(b) /\ SubSeq(b, 1, Len(a)) = a

EndsWith(s, t) == Len(s) >= Len(t) /\ SubSeq(s, Len(s) - Len(t) + 1, Len(s)) = t

\* C22: between resets the log only grows at its end: every call other
\* than resetSession leaves the log it found as a prefix of the log it
\* leaves, getSessionErrors returns the log as it is then (so an earlier
\* snapshot is a prefix of a later one), and an entry a verifyAdvice call
\* adds is the last one and ends with the text of that call as given.
C22_AppendOnly ==
  [][ /\ ~ResetSession => IsPrefix(Log, Log')
      /\ GetSessionErrors(FALSE) => ret'.value = Log
      /\ \A advice \in CaseTexts, gameContext \in Contexts :
           (VerifyAdvice(advice, gameContext) /\ Log' # Log) =>
             /\ Len(Log') = Len(Log) + 1
             /\ EndsWith(Log'[Len(Log')], advice) ]_vars

\* A snapshot of two entries: the rejection of "ALWAYS ENGAGE" first, that
\* of "always engage" after it.
C22_Witness ==
  /\ ret.op = "getSessionErrors"
  /\ ret.value = Log
  /\ Len(Log) = 2
  /\ EndsWith(Log[1], "Invalid advice detected: ALWAYS ENGAGE")
  /\ EndsWith(Log[2], "Invalid advice detected: always engage")

\* C23: the log changes on an invalid-pattern rejection, by one entry, and
\* on a reset, to empty, and on nothing else: not on an acceptance, not on
\* a generic verdict, accepted or rejected, not on validateTimeSensitivity
\* or getSessionErrors.  Its length is therefore the number of
\* invalid-pattern rejections since construction or the last reset.
C23_LogChangesOnlyOnPatternRejection ==
  [][ /\ ResetSession => Log' = <<>>
      /\ \A advice \in CaseTexts, gameContext \in Contexts :
           VerifyAdvice(advice, gameContext) =>
             IF /\ gameCategory \in SyllabusKeys
                /\ PrinciplesWithInvalidPattern[gameCategory][advice] # {}
               THEN Len(Log') = Len(Log) + 1
               ELSE Log' = Log
      /\ ( /\ ~ResetSession
           /\ ~ \E advice \in CaseTexts, gameContext \in Contexts :
                  VerifyAdvice(advice, gameContext) )
         => Log' = Log ]_vars

\* "Great rotation" was rejected by the generic heuristic and the log still
\* holds the one entry of an earlier invalid-pattern rejection.
C23_Witness ==
  /\ ret.op = "verifyAdvice"
  /\ ret.advice = "Great rotation"
  /\ gameCategory = "moba"
  /\ ~Verdict.isValid
  /\ Verdict.category = Undefined
  /\ Len(Log) = 1
  /\ EndsWith(Log[1], "always engage")

\* The correction phrases of the syllabus, and whether some corrections key
\* contains an invalid pattern of its own principle or is contained in one.
CorrectionPhrases ==
  UNION { { p.corrections[n][2] : n \in DOMAIN p.corrections } : p \in AllPrinciples }

SomeCorrectionKeyMatches ==
  \E p \in AllPrinciples :
    \E n \in DOMAIN p.corrections, m \in DOMAIN p.invalidPatterns :
      \/ includes(p.corrections[n][1], p.invalidPatterns[m])
      \/ includes(p.invalidPatterns[m], p.corrections[n][1])

\* C24: in the shipped syllabus no corrections key contains an invalid
\* pattern of its principle or is contained in one, so every rejection for
\* an invalid pattern, in all three games, carries the sentence of the
\* principle's category and never one of the correction phrases.
C24_NoCorrectionEverReturned ==
  /\ ~SomeCorrectionKeyMatches
  /\ ( /\ ret.op = "verifyAdvice"
       /\ gameCategory \in SyllabusKeys
       /\ PrinciplesWithInvalidPattern[gameCategory][ret.advice] # {} )
     => /\ ~ret.threw
        /\ Verdict.modifiedAdvice =
             Some(CannedSentence[COACHING_SYLLABUS[gameCategory]
                    [Least(PrinciplesWithInvalidPattern[gameCategory][ret.advice])].category])
        /\ Verdict.modifiedAdvice[1] \notin CorrectionPhrases

\* "I should always engage without vision" contains the corrections key
\* "engage without vision"; the lookup compares the key with the pattern
\* "always engage", and the text was replaced by the positioning sentence.
C24_Witness ==
  /\ ret.op = "verifyAdvice"
  /\ gameCategory = "moba"
  /\ ret.advice = "I should always engage without vision"
  /\ includes(ret.advice, COACHING_SYLLABUS["moba"][1].corrections[1][1])
  /\ ~Verdict.isValid
  /\ Verdict.modifiedAdvice = Some("Focus on safe positioning")

\* C25: when the generator model's reply is stale by validateTimeSensitivity
\* (it arrived later than its tier allows after the call's timestamp),
\* getCoachingAdvice returns a substitute: not the reply itself, nor the
\* reply with a suffix appended.
C25_StaleAdviceSubstituted ==
  ( /\ ret.op = "getCoachingAdvice"
    /\ ~ret.pending
    /\ ret.text # Undefined
    /\ ~validateTimeSensitivity(rawAdviceOf(ret.text[1]), ret.timestamp,
                                Some(ret.gameContext[1].gameTime), ret.at) )
  => \/ ret.simulated
     \/ ~IsPrefix(rawAdviceOf(ret.text[1]), ret.value[1])

\* C26: when verifyAdvice rejects the generator model's response,
\* respondToChat and getCoachingAdvice return the verdict's modifiedAdvice
\* or another substitute, never the rejected response itself.
C26_RejectedTextNeverShown ==
  /\ ( /\ ret.op = "respondToChat"
       /\ ~ret.pending
       /\ ~ret.simulated
       /\ ~OutcomeTable[currentGameSyllabus][textResponseOf(ret.text[1])].value[1].isValid )
     => ret.value.text # Some(textResponseOf(ret.text[1]))
  /\ ( /\ ret.op = "getCoachingAdvice"
       /\ ~ret.pending
       /\ ~ret.simulated
       /\ ~OutcomeTable[currentGameSyllabus][rawAdviceOf(ret.text[1])].value[1].isValid )
     => ret.value # Some(rawAdviceOf(ret.text[1]))

\* C27: reconnectAttempts stays between 0 and maxReconnectAttempts however
\* the monitor callbacks, the failing initializations, the retry timers and
\* the awaited createLiveSession calls interleave.  handleReconnection calls
\* createLiveSession only while reconnectAttempts is below the maximum, and
\* counts the call; the count goes down only when a session is created, on
\* resetForNextUser, or while there is no generator model (which, once set,
\* stays); a retry timer is set only when a createLiveSession call fails.
\* So when every call fails and nothing resets, at most three are made,
\* and a handleReconnection call that finds the count at the maximum
\* starts nothing and sets no timer.
C27_ReconnectionBounded ==
  [][ /\ service.reconnectAttempts \in 0..maxReconnectAttempts
      /\ service'.reconnectAttempts \in 0..maxReconnectAttempts
      /\ Len(service'.reconnecting) > Len(service.reconnecting) =>
           /\ service.reconnectAttempts < maxReconnectAttempts
           /\ service'.reconnectAttempts = service.reconnectAttempts + 1
           /\ Len(service'.reconnecting) = Len(service.reconnecting) + 1
      /\ service'.reconnectAttempts < service.reconnectAttempts =>
           \/ ResetForNextUser
           \/ \E i \in DOMAIN service.reconnecting : ReconnectionResumes(i, TRUE)
           \/ ~service.generatorModel
      /\ service.generatorModel => service'.generatorModel
      /\ service'.retries > service.retries =>
           /\ \E i \in DOMAIN service.reconnecting : ReconnectionResumes(i, FALSE)
           /\ service'.retries = service.retries + 1
      /\ ( /\ service.reconnectAttempts = maxReconnectAttempts
           /\ \/ RetryFires
              \/ MonitorFires(TRUE)
              \/ InitializationContinues /\ service.continuing[1].threw
              \/ \E i \in DOMAIN service.initializing : InitializationResumes(i, FALSE) )
         => /\ service'.reconnectAttempts = maxReconnectAttempts
            /\ service'.reconnecting = service.reconnecting
            /\ service'.retries <= service.retries
            /\ service'.liveSession = service.liveSession ]_vars

\* Three createLiveSession calls failed one after the other; the retry timer
\* of the third has fired and its handleReconnection call started nothing:
\* no call is awaited, no timer is pending, and there is no live session.
C27_Witness ==
  /\ ret.op = "retry"
  /\ service.reconnectAttempts = maxReconnectAttempts
  /\ service.reconnecting = <<>>
  /\ service.retries = 0
  /\ service.monitors = 0
  /\ service.liveSession = Undefined
  /\ service.currentModelIndex = Len(MODEL_CONFIGS) - 1

\* C28: currentModelIndex is always an index of MODEL_CONFIGS (0..2); no
\* initialization, reconnection, timer or reset lowers it; it rises by one
\* at most, and only in a handleReconnection call that makes an attempt;
\* at the last index it stays, and a session is created with the
\* configuration at the index of its attempt.
C28_ModelIndexMonotone ==
  [][ /\ service.currentModelIndex \in 0..(Len(MODEL_CONFIGS) - 1)
      /\ service'.currentModelIndex \in 0..(Len(MODEL_CONFIGS) - 1)
      /\ service'.currentModelIndex >= service.currentModelIndex
      /\ service'.currentModelIndex <= service.currentModelIndex + 1
      /\ service'.currentModelIndex > service.currentModelIndex =>
           /\ service.reconnectAttempts < maxReconnectAttempts
           /\ \/ Len(service'.reconnecting) = Len(service.reconnecting) + 1
              \/ ~service.generatorModel
      /\ Len(service'.reconnecting) > Len(service.reconnecting) =>
           service'.reconnecting[Len(service'.reconnecting)].modelConfig
             = MODEL_CONFIGS[service'.currentModelIndex + 1]
      /\ service.currentModelIndex = Len(MODEL_CONFIGS) - 1 =>
           service'.currentModelIndex = Len(MODEL_CONFIGS) - 1 ]_vars

\* Two attempts with the last configuration are awaited at once (the second
\* began when the index was already the last), and a reset has left the
\* index where it was.
C28_Witness ==
  /\ ret.op = "resetForNextUser"
  /\ service.currentModelIndex = Len(MODEL_CONFIGS) - 1
  /\ Len(service.reconnecting) = 2
  /\ \A i \in DOMAIN service.reconnecting :
       service.reconnecting[i].modelConfig = MODEL_CONFIGS[Len(MODEL_CONFIGS)]

CoachingActive ==
  /\ app.mounted
  /\ app.currentView = "live"
  /\ app.isAIActive
  /\ ~app.isPaused
  /\ app.currentSession # Undefined

\* The visitor has stopped the coach on a page that still runs: the game
\* is paused, the AI coach is off, or another view is on display.
CoachingStopped ==
  /\ app.mounted
  /\ app.isPaused \/ ~app.isAIActive \/ app.currentView # "live"

SessionNeverShown ==
  (app.mounted /\ app.currentSession # Undefined) =>
    /\ app.currentView = "live"
    /\ app.rendering
    /\ app.earlyReturn
    /\ app.currentSession[1].endTime = Undefined
    /\ app.sessionHistory = <<>>

\* The coaching, live-stats and key-moments intervals are never set.
IntervalsNeverSet == ~app.coachTimer /\ ~app.statsTimer /\ ~app.keyMomentsTimer

=============================================================================
